---------------------------- MODULE Spec2Model ----------------------------
(***************************************************************************)
(* Research Loop and session layer of WebResearcher.                       *)
(*                                                                         *)
(* Three implementations of the Research Loop exist in the repository:     *)
(*   "M"  src/api/search_engine_manager.py  AsyncSearchEngine              *)
(*   "E"  src/Self_Improving_Search.py      EnhancedSelfImprovingSearch    *)
(*   "A"  src/api/main.py                   AsyncSearchEngine (override)   *)
(* The variable `variant' fixes which one an execution runs.  A stage of   *)
(* the loop is a call to a collaborator: pc names the call in flight, and  *)
(* one action models the return of that call together with everything the  *)
(* loop does up to the next call.                                          *)
(***************************************************************************)
EXTENDS Integers, Sequences, FiniteSets, TLC

\* Largest retry budget explored (settings maxAttempts).
MaxBudget == 2

Variants == {"M", "E", "A"}

\* URLs the search provider can return.
URLs == {"u1", "u2"}

\* Page texts, by the three features the reliability heuristic reads.
Texts ==
  { [length |-> 400,  http |-> FALSE, newlines |-> 2],
    [length |-> 1500, http |-> FALSE, newlines |-> 3],
    [length |-> 3000, http |-> TRUE,  newlines |-> 12] }

\* The dict {} of the source.
EmptyContent == <<>>

\* Every dict url -> text whose keys are among urls.
Contents(urls) == UNION { [S -> Texts] : S \in SUBSET urls }

\* Calls to collaborators (the stages of an attempt, and the two synthesis calls).
GatherStages == {"formulate", "search", "select", "scrape"}
Stages == GatherStages \cup {"evaluate", "generate", "final"}

\* Final answer strings.
NoAnswer         == "NONE"
ModelText        == "MODEL_TEXT"
EmptyText        == "EMPTY"
CannotProvide    == "CANNOT_PROVIDE_COMPLETE_ANSWER"
CouldNotGenerate == "COULD_NOT_GENERATE"
NotAbleToFind    == "NOT_ABLE_TO_FIND"
StoppedByUser    == "SEARCH_STOPPED_BY_USER"

VARIABLES
  variant,            \* which implementation runs
  max_attempts,       \* self.max_attempts
  pc,                 \* "idle", the call in flight, "done" or "crashed"
  attempt,            \* local attempt
  stop_requested,     \* self.stop_requested / self._stop_event
  queue_present,      \* session_id in message_queues
  search_query,       \* local search_query / formulated_query: "" or "q"
  selected_urls,      \* local selected_urls
  scraped_content,    \* local scraped_content
  current_confidence, \* local current_confidence
  best_content,       \* local best_content
  best_confidence,    \* local best_confidence
  source_metrics,     \* research_details["source_metrics"]: url -> reliability
  answer,             \* the final answer string
  results_emitted,    \* events of type result emitted
  completed_emitted,  \* a completed status was emitted
  reported_confidences, \* data.confidence of the result and completed events
  \* history
  form_calls,         \* attempt indices passed to formulate_query, in order
  max_conf_seen,      \* largest confidence computed so far
  answer_verdict,     \* the evaluator returned `answer'
  synth_raised,       \* the synthesis call after an `answer' verdict raised
  late_call,          \* a gather stage was called after an `answer' verdict
  search_nonempty,    \* some search returned a non-empty list
  empty_searches,     \* searches that returned the empty list
  evaluated,          \* the evaluator was called
  llm_synth,          \* a language-model synthesis call was made
  synth_content,      \* the content handed to the last synthesis call
  stop_in_stage,      \* stop was requested while a call was in flight
  stage_after_stop,   \* a call was started after such a stop
  exceptions,         \* exceptions caught by the except clause of the loop
  exception_events,   \* events of type error emitted for those exceptions
  empty_results,      \* gather stages that returned an empty result
  \* session layer (src/api/session_manager.py)
  now,                \* the wall clock, in seconds: an index into Seconds
  research_sessions,  \* self.research_sessions: id -> entry, NoEntry if absent
  db,                 \* research_sessions table: id -> status, "absent" if no row
  active_tasks,       \* self.active_tasks: id -> future, 0 if the id is no key
  futures,            \* futures submitted to self.executor: future -> state
  executor_shutdown,  \* self.executor.shutdown was called
  \* history
  stop_accepted,      \* stop_research set the entry of this id to stopped
  setup_failed,       \* initialize_session raised for this id
  \* event channel of one session (src/api/main.py, src/api/websocket_manager.py)
  session_registered, \* session_id in research_sessions
  active_connections, \* active_connections[session_id]: the observers attached
  connection_status,  \* WebSocketManager.connection_status[session_id]
  queues,             \* the queue.Queue objects: object -> events, oldest first
  message_queues,     \* message_queues[session_id]: an object, or "none"
  message_processing_tasks, \* message_processing_tasks[session_id]
  stop_event,         \* AsyncMessageHandler._stop_event
  last_message,       \* AsyncMessageHandler._last_message
  broadcaster,        \* position of the process_messages task
  bc_queue,           \* its local message_queue: an object, or "none"
  in_hand,            \* its local message: an emission index, 0 if none
  drain_loops,        \* tasks inside the loop of process_messages
  producer,           \* the worker thread: "ready", or "blocked" inside put
  pending,            \* the event a blocked worker is putting
  put_target,         \* the object a blocked worker is putting to
  event_loop,         \* the event-loop thread: "free", or blocked inside a put
  loop_submitted,     \* a Research Loop was submitted to the worker pool
  \* history
  observed_at_begin,  \* an observer was attached when the loop was submitted
  emitted,            \* every event handed to a handler or put by the session layer
  accepted,           \* emission indices of the events put on a queue
  delivered,          \* observer -> emission indices sent to it, in order
  throughout,         \* observers attached since before the first emission
  \* one call of a stage function (src/Self_Improving_Search.py,
  \* src/api/search_engine_manager.py)
  called,             \* the stage function called, "none" if none is
  search_results,     \* argument search_results: the hrefs, in rank order
  permitted,          \* the URLs for which can_fetch answers True
  user_query,         \* argument user_query: its words
  replies,            \* what self.llm.generate does on its 1st, 2nd, 3rd call
  returned,           \* "pending", "returned" or "raised"
  model_calls,        \* calls of self.llm.generate made by the function
  result,             \* the value returned
  scrape_urls,        \* argument urls of scrape_content
  fetchable,          \* the URLs for which get_web_content returns a text
  successful_urls,    \* research_details["successful_urls"]
  failed_urls         \* research_details["failed_urls"]

loopVars ==
  <<variant, max_attempts, pc, attempt, stop_requested, queue_present,
    search_query, selected_urls, scraped_content, current_confidence,
    best_content, best_confidence, source_metrics, answer, results_emitted,
    completed_emitted, reported_confidences, form_calls, max_conf_seen,
    answer_verdict, synth_raised, late_call, search_nonempty, empty_searches,
    evaluated, llm_synth, synth_content, stop_in_stage, stage_after_stop,
    exceptions, exception_events, empty_results>>

sessionVars ==
  <<now, research_sessions, db, active_tasks, futures, executor_shutdown,
    stop_accepted, setup_failed>>

channelVars ==
  <<session_registered, active_connections, connection_status, queues,
    message_queues, message_processing_tasks, stop_event, last_message,
    broadcaster, bc_queue, in_hand, drain_loops, producer, pending, put_target,
    event_loop,
    loop_submitted, observed_at_begin, emitted, accepted, delivered,
    throughout>>

stageVars ==
  <<called, search_results, permitted, user_query, replies, returned,
    model_calls, result, scrape_urls, fetchable, successful_urls,
    failed_urls>>

\* What the Research Loop leaves alone, and what the session manager, the
\* channel and a stage function do.
notLoopVars == <<sessionVars, channelVars, stageVars>>
notSessionVars == <<loopVars, channelVars, stageVars>>
notChannelVars == <<loopVars, sessionVars, stageVars>>
notStageVars == <<loopVars, sessionVars, channelVars>>

vars == <<loopVars, sessionVars, channelVars, stageVars>>

Min(a, b) == IF a < b THEN a ELSE b
Max(a, b) == IF a > b THEN a ELSE b

RECURSIVE SumOver(_, _)
SumOver(f, S) ==
  IF S = {} THEN 0
  ELSE LET x == CHOOSE y \in S : TRUE IN f[x] + SumOver(f, S \ {x})

\* scrape_content: the reliability of one fetched page.
Reliability(text) ==
  Min(100, 50 + (IF text.length > 1000 THEN 20 ELSE 10)
              + (IF text.http THEN 20 ELSE 0)
              + (IF text.newlines > 5 THEN 10 ELSE 0))

\* scrape_content: source_metrics after the pages of content were recorded.
RecordMetrics(metrics, content) ==
  [u \in DOMAIN metrics \cup DOMAIN content |->
     IF u \in DOMAIN content THEN Reliability(content[u]) ELSE metrics[u]]

CalculateContentConfidenceSum(content, metrics) ==
  SumOver(metrics, DOMAIN content \cap DOMAIN metrics)

\* _calculate_content_confidence
CalculateContentConfidence(content, metrics) ==
  IF DOMAIN content = {} THEN 0
  ELSE LET known == DOMAIN content \cap DOMAIN metrics
           total_score == SumOver(metrics, known)
       IN Min(100, total_score \div Cardinality(DOMAIN content))

\* `while attempt < self.max_attempts'
LoopGuardOffByOne(a, budget) == a <= budget
LoopGuard(a, budget) == a < budget

\* `if current_confidence > best_confidence'
ImprovesBestOrEqual(current, best) == current >= best
ImprovesBestAlways(current, best) == TRUE
ImprovesBest(current, best) == current > best

\* `if decision == "answer" or attempt == self.max_attempts - 1'
ShouldSynthesizeLastOnly(decision, a, budget) == a = budget - 1
ShouldSynthesize(decision, a, budget) == decision = "answer" \/ a = budget - 1

\* `if best_content:'
\* attempt += 1 after an empty stage result
AfterEmptySame(a) == a
AfterEmpty(a) == a + 1

HasContentAlways(content) == TRUE
HasContent(content) == content # EmptyContent

-----------------------------------------------------------------------------
(* Bookkeeping shared by the three loops.                                  *)

\* The loop starts the call `stage' with attempt index a.
CallStage(stage, a) ==
  /\ pc' = stage
  /\ form_calls' = IF stage = "formulate" THEN Append(form_calls, a) ELSE form_calls
  /\ late_call' = (late_call \/ (answer_verdict /\ stage \in GatherStages))
  /\ stage_after_stop' = (stage_after_stop \/ stop_in_stage)
  /\ evaluated' = (evaluated \/ stage = "evaluate")

\* The loop moves to p without calling a collaborator.
NoCall(p) ==
  /\ pc' = p
  /\ UNCHANGED <<form_calls, late_call, stage_after_stop, evaluated>>

locals == <<search_query, selected_urls, scraped_content, current_confidence>>
best == <<best_content, best_confidence, max_conf_seen>>
output ==
  <<answer, results_emitted, completed_emitted, reported_confidences>>
synth == <<llm_synth, synth_content>>
searched == <<search_nonempty, empty_searches>>
env == <<variant, max_attempts, stop_requested, queue_present, stop_in_stage>>
errs == <<exceptions, exception_events, empty_results>>

\* The loop goes on to the call `stage' / to p; no exception was caught.
Proceed(stage, a) == CallStage(stage, a) /\ UNCHANGED errs
Finish(p) == NoCall(p) /\ UNCHANGED errs

\* The locals of an attempt are dead once the attempt is over.
ResetLocals ==
  /\ search_query' = ""
  /\ selected_urls' = {}
  /\ scraped_content' = EmptyContent
  /\ current_confidence' = 0

-----------------------------------------------------------------------------
(* "M": search_engine_manager.AsyncSearchEngine.search_and_improve         *)

\* A completed status with no result event before it.
M_SendCompletedOnly(ans) ==
  /\ answer' = ans
  /\ results_emitted' = results_emitted
  /\ completed_emitted' = (completed_emitted \/ queue_present)
  /\ reported_confidences' =
       IF queue_present
       THEN reported_confidences \cup {best_confidence}
       ELSE reported_confidences

\* The result event and the completed status, put on the queue if there is one.
M_SendFinalResult(ans) ==
  /\ answer' = ans
  /\ results_emitted' = results_emitted + (IF queue_present THEN 1 ELSE 0)
  /\ completed_emitted' = (completed_emitted \/ queue_present)
  /\ reported_confidences' =
       IF queue_present
       THEN reported_confidences \cup {best_confidence}
       ELSE reported_confidences

\* The loop condition with attempt index a, and the code after the loop.
M_LoopHead(a) ==
  /\ attempt' = a
  /\ IF LoopGuard(a, max_attempts) /\ ~stop_requested
     THEN /\ CallStage("formulate", a)
          /\ UNCHANGED <<output, synth>>
     ELSE IF HasContent(best_content)
          THEN /\ CallStage("final", a)
               /\ llm_synth' = TRUE
               /\ synth_content' = best_content
               /\ UNCHANGED output
          ELSE /\ NoCall("done")
               /\ M_SendFinalResult(CannotProvide)
               /\ UNCHANGED synth

\* The attempt ends without synthesis: attempt += 1
M_NextAttempt ==
  /\ M_LoopHead(attempt + 1)
  /\ ResetLocals
  /\ UNCHANGED errs

\* except Exception: logger.error(...); attempt += 1 -- no event is put on
\* the queue.
M_Except ==
  /\ M_LoopHead(attempt + 1)
  /\ ResetLocals
  /\ UNCHANGED empty_results
  /\ exceptions' = exceptions + 1
  /\ UNCHANGED exception_events

\* if not <result>: attempt += 1; continue
M_EmptyResult ==
  /\ M_LoopHead(AfterEmpty(attempt))
  /\ ResetLocals
  /\ empty_results' = empty_results + 1
  /\ UNCHANGED <<exceptions, exception_events>>

M_Start ==
  /\ variant = "M" /\ pc = "idle"
  /\ UNCHANGED <<notLoopVars, errs>>
  /\ M_LoopHead(0)
  /\ UNCHANGED <<locals, best, source_metrics, env, answer_verdict,
                 synth_raised, searched>>

M_FormulateReturns ==
  /\ variant = "M" /\ pc = "formulate"
  /\ UNCHANGED notLoopVars
  /\ \E outcome \in {"q", "", "raise"} :
       IF outcome = "q"
       THEN /\ search_query' = outcome
            /\ Proceed("search", attempt)
            /\ UNCHANGED <<attempt, selected_urls, scraped_content,
                           current_confidence, output, synth>>
       ELSE IF outcome = "raise" THEN M_Except ELSE M_EmptyResult
  /\ UNCHANGED <<best, source_metrics, env, answer_verdict, synth_raised,
                 searched>>

M_SearchReturns ==
  /\ variant = "M" /\ pc = "search"
  /\ UNCHANGED notLoopVars
  /\ \E outcome \in {"results", "empty", "raise"} :
       /\ search_nonempty' = (search_nonempty \/ outcome = "results")
       /\ empty_searches' = empty_searches + (IF outcome = "empty" THEN 1 ELSE 0)
       /\ IF outcome = "results"
          THEN /\ Proceed("select", attempt)
               /\ UNCHANGED <<attempt, locals, output, synth>>
          ELSE IF outcome = "raise" THEN M_Except ELSE M_EmptyResult
  /\ UNCHANGED <<best, source_metrics, env, answer_verdict, synth_raised>>

M_SelectReturns ==
  /\ variant = "M" /\ pc = "select"
  /\ UNCHANGED notLoopVars
  /\ \/ \E urls \in SUBSET URLs :
          IF urls # {}
          THEN /\ selected_urls' = urls
               /\ Proceed("scrape", attempt)
               /\ UNCHANGED <<attempt, search_query, scraped_content,
                              current_confidence, output, synth>>
          ELSE M_EmptyResult
     \/ M_Except
  /\ UNCHANGED <<best, source_metrics, env, answer_verdict, synth_raised,
                 searched>>

M_ScrapeReturns ==
  /\ variant = "M" /\ pc = "scrape"
  /\ UNCHANGED notLoopVars
  /\ \E content \in Contents(selected_urls) :
       /\ source_metrics' = RecordMetrics(source_metrics, content)
       /\ \/ /\ content # EmptyContent
             /\ scraped_content' = content
             /\ current_confidence' =
                  CalculateContentConfidence(content, source_metrics')
             /\ max_conf_seen' = Max(max_conf_seen, current_confidence')
             /\ IF ImprovesBest(current_confidence', best_confidence)
                THEN /\ best_content' = content
                     /\ best_confidence' = current_confidence'
                ELSE UNCHANGED <<best_content, best_confidence>>
             /\ Proceed("evaluate", attempt)
             /\ UNCHANGED <<attempt, search_query, selected_urls, output, synth>>
          \/ /\ content = EmptyContent
             /\ M_EmptyResult
             /\ UNCHANGED best
          \/ \* an exception after the pages of content were recorded
             /\ M_Except
             /\ UNCHANGED best
  /\ UNCHANGED <<env, answer_verdict, synth_raised, searched>>

M_EvaluateReturns ==
  /\ variant = "M" /\ pc = "evaluate"
  /\ UNCHANGED notLoopVars
  /\ \E decision \in {"answer", "refine", "other", "raise"} :
       /\ answer_verdict' = (answer_verdict \/ decision = "answer")
       /\ IF decision # "raise" /\ ShouldSynthesize(decision, attempt, max_attempts)
          THEN /\ Proceed("generate", attempt)
               /\ llm_synth' = TRUE
               /\ synth_content' = best_content
               /\ UNCHANGED <<attempt, locals, output>>
          ELSE IF decision = "raise" THEN M_Except ELSE M_NextAttempt
  /\ UNCHANGED <<best, source_metrics, env, synth_raised, searched>>

M_GenerateReturns ==
  /\ variant = "M" /\ pc = "generate"
  /\ UNCHANGED notLoopVars
  /\ \/ \E text \in {ModelText, EmptyText} :
          /\ Finish("done")
          /\ M_SendFinalResult(text)
          /\ UNCHANGED <<attempt, locals, synth, synth_raised>>
     \/ /\ synth_raised' = (synth_raised \/ answer_verdict)
        /\ M_Except
  /\ UNCHANGED <<best, source_metrics, env, answer_verdict, searched>>

M_FinalReturns ==
  /\ variant = "M" /\ pc = "final"
  /\ UNCHANGED notLoopVars
  /\ \/ \E text \in {ModelText, EmptyText} :
          /\ Finish("done")
          /\ M_SendFinalResult(text)
     \/ /\ Finish("crashed")
        /\ UNCHANGED output
  /\ UNCHANGED <<attempt, locals, best, source_metrics, env, synth,
                 answer_verdict, synth_raised, searched>>

\* AsyncSearchEngine.stop
M_Stop ==
  /\ variant = "M"
  /\ UNCHANGED <<notLoopVars, errs>>
  /\ stop_requested' = TRUE
  /\ stop_in_stage' = (stop_in_stage \/ pc \in Stages)
  /\ UNCHANGED <<variant, max_attempts, queue_present, pc, attempt, locals,
                 best, source_metrics, output, synth, form_calls, late_call,
                 stage_after_stop, evaluated, answer_verdict, synth_raised,
                 searched>>

\* WebSocketManager._cleanup_session, when the last observer disconnects.
M_QueueDeleted ==
  /\ variant = "M" /\ queue_present
  /\ UNCHANGED <<notLoopVars, errs>>
  /\ queue_present' = FALSE
  /\ UNCHANGED <<variant, max_attempts, stop_requested, stop_in_stage, pc,
                 attempt, locals, best, source_metrics, output, synth,
                 form_calls, late_call, stage_after_stop, evaluated,
                 answer_verdict, synth_raised, searched>>

\* WebSocketManager.connect / get_message_queue
M_QueueCreated ==
  /\ variant = "M" /\ ~queue_present
  /\ UNCHANGED <<notLoopVars, errs>>
  /\ queue_present' = TRUE
  /\ UNCHANGED <<variant, max_attempts, stop_requested, stop_in_stage, pc,
                 attempt, locals, best, source_metrics, output, synth,
                 form_calls, late_call, stage_after_stop, evaluated,
                 answer_verdict, synth_raised, searched>>

-----------------------------------------------------------------------------
(* "E": Self_Improving_Search.EnhancedSelfImprovingSearch.search_and_improve *)

\* The events of type result that reach the handler for one final answer.
\* search_and_improve of Self_Improving_Search.py sends one.  The subclass
\* WebSocketSearchEngine of search_engine.py ("W") runs that loop through
\* super() and sends the answer again, once in its generate_final_answer and
\* once in its search_and_improve, each time if the text is not empty.
E_ResultEvents(ans) ==
  IF variant = "W"
  THEN 1 + (IF pc = "generate" /\ ans # EmptyText THEN 1 ELSE 0)
         + (IF ans # EmptyText THEN 1 ELSE 0)
  ELSE 1

\* send_message("result", final_answer); return final_answer
E_ReturnAnswer(ans) ==
  /\ answer' = ans
  /\ results_emitted' = results_emitted + E_ResultEvents(ans)
  /\ UNCHANGED <<completed_emitted, reported_confidences>>

\* The loop condition with attempt index a, and the code after the loop.
E_LoopHead(a) ==
  /\ attempt' = a
  /\ IF LoopGuard(a, max_attempts)
     THEN /\ CallStage("formulate", a)
          /\ UNCHANGED synth
     ELSE /\ CallStage("final", a)
          /\ llm_synth' = TRUE
          /\ synth_content' = EmptyContent
  /\ UNCHANGED output

\* decision == "refine": attempt += 1
E_NextAttempt ==
  /\ E_LoopHead(attempt + 1)
  /\ ResetLocals
  /\ UNCHANGED errs

\* except Exception: send_message("error", ...); attempt += 1
E_Except ==
  /\ E_LoopHead(attempt + 1)
  /\ ResetLocals
  /\ UNCHANGED empty_results
  /\ exceptions' = exceptions + 1
  /\ exception_events' = exception_events + 1

\* if not <result>: send_message("error", ...); attempt += 1; continue
E_EmptyResult ==
  /\ E_LoopHead(AfterEmpty(attempt))
  /\ ResetLocals
  /\ empty_results' = empty_results + 1
  /\ UNCHANGED <<exceptions, exception_events>>

E_Start ==
  /\ variant \in {"E", "W"} /\ pc = "idle"
  /\ UNCHANGED <<notLoopVars, errs>>
  /\ E_LoopHead(0)
  /\ UNCHANGED <<locals, best, source_metrics, env, answer_verdict,
                 synth_raised, searched>>

E_FormulateReturns ==
  /\ variant \in {"E", "W"} /\ pc = "formulate"
  /\ UNCHANGED notLoopVars
  /\ \E outcome \in {"q", "", "raise"} :
       IF outcome = "q"
       THEN /\ search_query' = outcome
            /\ Proceed("search", attempt)
            /\ UNCHANGED <<attempt, selected_urls, scraped_content,
                           current_confidence, output, synth>>
       ELSE IF outcome = "raise" THEN E_Except ELSE E_EmptyResult
  /\ UNCHANGED <<best, source_metrics, env, answer_verdict, synth_raised,
                 searched>>

E_SearchReturns ==
  /\ variant \in {"E", "W"} /\ pc = "search"
  /\ UNCHANGED notLoopVars
  /\ \E outcome \in {"results", "empty", "raise"} :
       /\ search_nonempty' = (search_nonempty \/ outcome = "results")
       /\ empty_searches' = empty_searches + (IF outcome = "empty" THEN 1 ELSE 0)
       /\ IF outcome = "results"
          THEN /\ Proceed("select", attempt)
               /\ UNCHANGED <<attempt, locals, output, synth>>
          ELSE IF outcome = "raise" THEN E_Except ELSE E_EmptyResult
  /\ UNCHANGED <<best, source_metrics, env, answer_verdict, synth_raised>>

E_SelectReturns ==
  /\ variant \in {"E", "W"} /\ pc = "select"
  /\ UNCHANGED notLoopVars
  /\ \/ \E urls \in SUBSET URLs :
          IF urls # {}
          THEN /\ selected_urls' = urls
               /\ Proceed("scrape", attempt)
               /\ UNCHANGED <<attempt, search_query, scraped_content,
                              current_confidence, output, synth>>
          ELSE E_EmptyResult
     \/ E_Except
  /\ UNCHANGED <<best, source_metrics, env, answer_verdict, synth_raised,
                 searched>>

E_ScrapeReturns ==
  /\ variant \in {"E", "W"} /\ pc = "scrape"
  /\ UNCHANGED notLoopVars
  /\ \/ \E content \in Contents(selected_urls) :
          IF content # EmptyContent
          THEN /\ scraped_content' = content
               /\ Proceed("evaluate", attempt)
               /\ UNCHANGED <<attempt, search_query, selected_urls,
                              current_confidence, output, synth>>
          ELSE E_EmptyResult
     \/ E_Except
  /\ UNCHANGED <<best, source_metrics, env, answer_verdict, synth_raised,
                 searched>>

\* evaluate_scraped_content returns `answer' or `refine' only.
E_EvaluateReturns ==
  /\ variant \in {"E", "W"} /\ pc = "evaluate"
  /\ UNCHANGED notLoopVars
  /\ \E decision \in {"answer", "refine"} :
       /\ answer_verdict' = (answer_verdict \/ decision = "answer")
       /\ IF decision = "refine"
          THEN E_NextAttempt
          ELSE /\ Proceed("generate", attempt)
               /\ llm_synth' = TRUE
               /\ synth_content' = scraped_content
               /\ UNCHANGED <<attempt, locals, output>>
  /\ UNCHANGED <<best, source_metrics, env, synth_raised, searched>>

\* generate_final_answer: model text, or its apology after three empty replies.
E_GenerateReturns ==
  /\ variant \in {"E", "W"} /\ pc = "generate"
  /\ UNCHANGED notLoopVars
  /\ \/ \E text \in {ModelText, CouldNotGenerate} :
          /\ Finish("done")
          /\ E_ReturnAnswer(text)
          /\ UNCHANGED <<attempt, locals, synth, synth_raised>>
     \/ /\ synth_raised' = (synth_raised \/ answer_verdict)
        /\ E_Except
  /\ UNCHANGED <<best, source_metrics, env, answer_verdict, searched>>

\* synthesize_final_answer: model text, or its apology when the reply is empty
\* or the call raises.
E_FinalReturns ==
  /\ variant \in {"E", "W"} /\ pc = "final"
  /\ UNCHANGED notLoopVars
  /\ \E text \in {ModelText, NotAbleToFind} :
       /\ Finish("done")
       /\ E_ReturnAnswer(text)
  /\ UNCHANGED <<attempt, locals, best, source_metrics, env, synth,
                 answer_verdict, synth_raised, searched>>

-----------------------------------------------------------------------------
(* "A": main.AsyncSearchEngine.search_and_improve, which overrides "E"      *)

\* A return from the loop; send_message drops every message once stop is set,
\* the result and the closing status of the finally block included.
A_Return(ans, is_result) ==
  /\ answer' = ans
  /\ results_emitted' =
       results_emitted + (IF is_result /\ ~stop_requested THEN 1 ELSE 0)
  /\ completed_emitted' = (completed_emitted \/ ~stop_requested)
  /\ UNCHANGED reported_confidences

\* `if self.should_stop(): return "Search stopped by user"'
A_StoppedReturn ==
  /\ NoCall("done")
  /\ A_Return(StoppedByUser, FALSE)

\* The loop condition with attempt index a, and the code after the loop.
A_LoopHead(a) ==
  /\ attempt' = a
  /\ IF LoopGuard(a, max_attempts) /\ ~stop_requested
     THEN /\ CallStage("formulate", a)
          /\ UNCHANGED <<output, synth>>
     ELSE IF stop_requested
          THEN /\ A_StoppedReturn
               /\ UNCHANGED synth
          ELSE /\ CallStage("final", a)
               /\ llm_synth' = TRUE
               /\ synth_content' = EmptyContent
               /\ UNCHANGED output

\* The evaluator did not answer: attempt += 1
A_NextAttempt ==
  /\ A_LoopHead(attempt + 1)
  /\ ResetLocals
  /\ UNCHANGED errs

\* except Exception: the override of the stage and the loop each call
\* send_message("error", ...), which drops the message once stop is set;
\* attempt += 1
A_Except ==
  /\ A_LoopHead(attempt + 1)
  /\ ResetLocals
  /\ UNCHANGED empty_results
  /\ exceptions' = exceptions + 1
  /\ exception_events' = exception_events + (IF stop_requested THEN 0 ELSE 2)

\* if not <result>: send_message("info", ...); attempt += 1; continue
A_EmptyResult ==
  /\ A_LoopHead(AfterEmpty(attempt))
  /\ ResetLocals
  /\ empty_results' = empty_results + 1
  /\ UNCHANGED <<exceptions, exception_events>>

A_Start ==
  /\ variant = "A" /\ pc = "idle"
  /\ UNCHANGED <<notLoopVars, errs>>
  /\ A_LoopHead(0)
  /\ UNCHANGED <<locals, best, source_metrics, env, answer_verdict,
                 synth_raised, searched>>

A_FormulateReturns ==
  /\ variant = "A" /\ pc = "formulate"
  /\ UNCHANGED notLoopVars
  /\ \/ \E query \in {"q", ""} :
          /\ search_query' = query
          /\ IF stop_requested
             THEN A_StoppedReturn /\ UNCHANGED <<errs, synth>>
             ELSE Proceed("search", attempt) /\ UNCHANGED <<output, synth>>
          /\ UNCHANGED <<attempt, selected_urls, scraped_content,
                         current_confidence>>
     \/ A_Except
  /\ UNCHANGED <<best, source_metrics, env, answer_verdict, synth_raised,
                 searched>>

\* perform_search returns [] for an empty query without asking the provider.
A_SearchReturns ==
  /\ variant = "A" /\ pc = "search"
  /\ UNCHANGED notLoopVars
  /\ \E outcome \in (IF search_query = "" THEN {"empty"}
                     ELSE {"results", "empty", "raise"}) :
       /\ search_nonempty' = (search_nonempty \/ outcome = "results")
       /\ empty_searches' = empty_searches + (IF outcome = "empty" THEN 1 ELSE 0)
       /\ IF outcome = "raise" THEN A_Except
          ELSE IF stop_requested
          THEN A_StoppedReturn /\ UNCHANGED <<errs, attempt, locals, synth>>
          ELSE IF outcome = "empty" THEN A_EmptyResult
          ELSE /\ Proceed("select", attempt)
               /\ UNCHANGED <<attempt, locals, output, synth>>
  /\ UNCHANGED <<best, source_metrics, env, answer_verdict, synth_raised>>

A_SelectReturns ==
  /\ variant = "A" /\ pc = "select"
  /\ UNCHANGED notLoopVars
  /\ \/ \E urls \in SUBSET URLs :
          IF stop_requested
          THEN A_StoppedReturn /\ UNCHANGED <<errs, attempt, locals, synth>>
          ELSE IF urls = {} THEN A_EmptyResult
          ELSE /\ selected_urls' = urls
               /\ Proceed("scrape", attempt)
               /\ UNCHANGED <<attempt, search_query, scraped_content,
                              current_confidence, output, synth>>
     \/ A_Except
  /\ UNCHANGED <<best, source_metrics, env, answer_verdict, synth_raised,
                 searched>>

A_ScrapeReturns ==
  /\ variant = "A" /\ pc = "scrape"
  /\ UNCHANGED notLoopVars
  /\ \/ \E content \in Contents(selected_urls) :
          IF stop_requested
          THEN A_StoppedReturn /\ UNCHANGED <<errs, attempt, locals, synth>>
          ELSE IF content = EmptyContent THEN A_EmptyResult
          ELSE /\ scraped_content' = content
               /\ Proceed("evaluate", attempt)
               /\ UNCHANGED <<attempt, search_query, selected_urls,
                              current_confidence, output, synth>>
     \/ A_Except
  /\ UNCHANGED <<best, source_metrics, env, answer_verdict, synth_raised,
                 searched>>

A_EvaluateReturns ==
  /\ variant = "A" /\ pc = "evaluate"
  /\ UNCHANGED notLoopVars
  /\ \E decision \in {"answer", "refine"} :
       /\ answer_verdict' = (answer_verdict \/ decision = "answer")
       /\ IF stop_requested
          THEN A_StoppedReturn /\ UNCHANGED <<errs, attempt, locals, synth>>
          ELSE IF decision = "answer"
          THEN /\ Proceed("generate", attempt)
               /\ llm_synth' = TRUE
               /\ synth_content' = scraped_content
               /\ UNCHANGED <<attempt, locals, output>>
          ELSE A_NextAttempt
  /\ UNCHANGED <<best, source_metrics, env, synth_raised, searched>>

A_GenerateReturns ==
  /\ variant = "A" /\ pc = "generate"
  /\ UNCHANGED notLoopVars
  /\ \/ \E text \in {ModelText, CouldNotGenerate} :
          /\ Finish("done")
          /\ A_Return(text, TRUE)
          /\ UNCHANGED <<attempt, locals, synth, synth_raised>>
     \/ /\ synth_raised' = (synth_raised \/ answer_verdict)
        /\ A_Except
  /\ UNCHANGED <<best, source_metrics, env, answer_verdict, searched>>

A_FinalReturns ==
  /\ variant = "A" /\ pc = "final"
  /\ UNCHANGED notLoopVars
  /\ \E text \in {ModelText, NotAbleToFind} :
       /\ Finish("done")
       /\ A_Return(text, TRUE)
  /\ UNCHANGED <<attempt, locals, best, source_metrics, env, synth,
                 answer_verdict, synth_raised, searched>>

\* main.AsyncSearchEngine.stop
A_Stop ==
  /\ variant = "A"
  /\ UNCHANGED <<notLoopVars, errs>>
  /\ stop_requested' = TRUE
  /\ stop_in_stage' = (stop_in_stage \/ pc \in Stages)
  /\ UNCHANGED <<variant, max_attempts, queue_present, pc, attempt, locals,
                 best, source_metrics, output, synth, form_calls, late_call,
                 stage_after_stop, evaluated, answer_verdict, synth_raised,
                 searched>>

-----------------------------------------------------------------------------
(* Session layer: src/api/session_manager.py SessionManager, with the      *)
(* status column of the research_sessions table of src/api/database.py.    *)
(* The worker of a session is the Research Loop "M" run by a future of the *)
(* executor; here only the life of the future is followed.                 *)

\* datetime.now().strftime("%Y%m%d_%H%M%S"), one value per second of the clock.
Seconds == <<"20240101_000000", "20240101_000001">>
SessionIds == { Seconds[i] : i \in 1..Len(Seconds) }

\* Futures submitted to the executor over one exploration.
MaxFutures == 2

\* ThreadPoolExecutor(max_workers=5)
max_workers == 5

Statuses == {"pending", "starting", "running", "stopped", "completed", "error"}

\* research_sessions has no entry / the table has no row for the id.
NoEntry == [status |-> "absent", search_engine |-> "None"]
NoRow == "absent"

\* active_tasks has no key for the id.
NoTask == 0

\* The four stores the operations work on, as one value.
Stores ==
  [rs |-> research_sessions, db |-> db, tasks |-> active_tasks,
   futs |-> futures]

SetStores(st) ==
  /\ research_sessions' = st.rs
  /\ db' = st.db
  /\ active_tasks' = st.tasks
  /\ futures' = st.futs

\* DatabaseManager.save_session: INSERT OR REPLACE
SaveSession(table, id, status) == [table EXCEPT ![id] = status]

\* DatabaseManager.update_session_status: UPDATE ... WHERE session_id = ?
DbUpdateSessionStatus(table, id, status) ==
  IF table[id] = NoRow THEN table ELSE [table EXCEPT ![id] = status]

\* AsyncSearchEngine.stop on session["search_engine"], when there is an engine.
EngineStop(engine) == IF engine = "None" THEN engine ELSE "stop_requested"

\* future.cancel(): only a future that has not started is cancelled.
FutureCancel(futs, f) ==
  IF f # NoTask /\ futs[f] = "queued"
  THEN [futs EXCEPT ![f] = "cancelled"]
  ELSE futs

\* if session_id in self.active_tasks: future.cancel(); del active_tasks[id]
CancelTask(st, id) ==
  [st EXCEPT !.futs = FutureCancel(st.futs, st.tasks[id]),
             !.tasks = [st.tasks EXCEPT ![id] = NoTask]]

\* SessionManager.get_session finds the id, in memory or else in the table.
InMemory(st, id) == st.rs[id] # NoEntry
SessionFound(st, id) == InMemory(st, id) \/ st.db[id] # NoRow

\* SessionManager.update_session_status
UpdateSessionStatus(st, id, status) ==
  IF InMemory(st, id)
  THEN [st EXCEPT !.rs = [st.rs EXCEPT ![id].status = status],
                  !.db = DbUpdateSessionStatus(st.db, id, status)]
  ELSE st

\* SessionManager.stop_research: the stores after the call.
StopResearchOn(st, id) ==
  IF ~SessionFound(st, id)
  THEN st
  ELSE LET stopped ==
             IF InMemory(st, id)
             THEN [st.rs EXCEPT ![id] =
                     [status |-> "stopped",
                      search_engine |-> EngineStop(@.search_engine)]]
             ELSE st.rs
           cancelled == CancelTask(st, id)
       IN [cancelled EXCEPT
             !.rs = stopped,
             !.db = DbUpdateSessionStatus(st.db, id, "stopped")]

\* SessionManager.cleanup_session: the stores after the call.  On an entry
\* whose search_engine is None, search_engine.stop() raises AttributeError; the
\* except clause swallows it and nothing is removed.
CleanupSessionOn(st, id) ==
  IF ~InMemory(st, id) \/ st.rs[id].search_engine = "None"
  THEN st
  ELSE [CancelTask(st, id) EXCEPT
          !.rs = [st.rs EXCEPT ![id] = NoEntry],
          !.db = DbUpdateSessionStatus(st.db, id, "completed")]

\* The loop of SessionManager.shutdown over the ids in ids.
RECURSIVE ShutdownOn(_, _)
ShutdownOn(st, ids) ==
  IF ids = {}
  THEN st
  ELSE LET id == CHOOSE x \in ids : TRUE
       IN ShutdownOn(CleanupSessionOn(StopResearchOn(st, id), id),
                     ids \ {id})

\* The first future not yet handed out, NoTask if the bound is reached.
FreeFuture ==
  IF \E f \in DOMAIN futures : futures[f] = "unused"
  THEN CHOOSE f \in DOMAIN futures :
         futures[f] = "unused" /\ \A g \in 1..(f - 1) : futures[g] # "unused"
  ELSE NoTask

Running == { f \in DOMAIN futures : futures[f] = "running" }

WorkerFreeOffByOne(running, size) == running <= size

\* ThreadPoolExecutor: a queued work item is taken only by an idle thread, and
\* the pool never has more than max_workers threads.
WorkerFree(running, size) == running < size

\* The clock moves to the next second.
Tick ==
  /\ now < Len(Seconds)
  /\ now' = now + 1
  /\ UNCHANGED <<research_sessions, db, active_tasks, futures,
                 executor_shutdown, stop_accepted, setup_failed,
                 notSessionVars>>

\* SessionManager.create_session
create_session ==
  LET session_id == Seconds[now]
  IN /\ research_sessions' =
          [research_sessions EXCEPT
             ![session_id] = [status |-> "pending", search_engine |-> "None"]]
     /\ db' = SaveSession(db, session_id, "pending")
     /\ stop_accepted' = [stop_accepted EXCEPT ![session_id] = FALSE]
     /\ setup_failed' = [setup_failed EXCEPT ![session_id] = FALSE]
     /\ UNCHANGED <<now, active_tasks, futures, executor_shutdown, notSessionVars>>

\* SessionManager.initialize_session.  failure is the place where the body
\* raises: nowhere, in the AsyncSearchEngine constructor, or in save_session;
\* the except clause then runs cleanup_session.
initialize_session(session_id) ==
  \E failure \in {"none", "engine", "save"} :
    LET updated ==
          [Stores EXCEPT
             !.rs = [research_sessions EXCEPT
                       ![session_id] = [status |-> "starting",
                                        search_engine |-> "engine"]]]
        saved == [updated EXCEPT
                    !.db = SaveSession(db, session_id, "starting")]
    IN /\ IF ~InMemory(Stores, session_id) \/ failure = "engine"
          THEN SetStores(CleanupSessionOn(Stores, session_id))
          ELSE IF failure = "save"
               THEN SetStores(CleanupSessionOn(updated, session_id))
               ELSE SetStores(saved)
       /\ setup_failed' =
            [setup_failed EXCEPT
               ![session_id] = ~InMemory(Stores, session_id) \/ failure # "none"]
       /\ UNCHANGED <<now, executor_shutdown, stop_accepted, notSessionVars>>

\* SessionManager.start_research
start_research(session_id) ==
  LET f == FreeFuture
      running == UpdateSessionStatus(Stores, session_id, "running")
  IN /\ IF ~InMemory(Stores, session_id)
        THEN \* not found, or a table row without "search_engine": the except
             \* clause calls update_session_status, which finds no entry
             UNCHANGED <<research_sessions, db, active_tasks, futures>>
        ELSE IF research_sessions[session_id].search_engine = "None"
        THEN SetStores(UpdateSessionStatus(Stores, session_id, "error"))
        ELSE IF executor_shutdown
        THEN \* submit raises RuntimeError after the status was set
             SetStores(UpdateSessionStatus(running, session_id, "error"))
        ELSE /\ f # NoTask
             /\ SetStores([running EXCEPT
                             !.futs = [futures EXCEPT ![f] = "queued"],
                             !.tasks = [active_tasks EXCEPT
                                          ![session_id] = f]])
     /\ UNCHANGED <<now, executor_shutdown, stop_accepted, setup_failed,
                 notSessionVars>>

\* SessionManager.stop_research
stop_research(session_id) ==
  /\ SetStores(StopResearchOn(Stores, session_id))
  /\ stop_accepted' =
       [stop_accepted EXCEPT ![session_id] = @ \/ InMemory(Stores, session_id)]
  /\ UNCHANGED <<now, executor_shutdown, setup_failed, notSessionVars>>

\* SessionManager.cleanup_session
cleanup_session(session_id) ==
  /\ SetStores(CleanupSessionOn(Stores, session_id))
  /\ UNCHANGED <<now, executor_shutdown, stop_accepted, setup_failed,
                 notSessionVars>>

\* SessionManager.delete_session
delete_session(session_id) ==
  LET cleaned == CleanupSessionOn(Stores, session_id)
  IN /\ SetStores([cleaned EXCEPT !.db = [cleaned.db EXCEPT ![session_id] = NoRow]])
     /\ UNCHANGED <<now, executor_shutdown, stop_accepted, setup_failed,
                 notSessionVars>>

\* SessionManager.shutdown
shutdown ==
  LET ids == { id \in SessionIds : InMemory(Stores, id) }
  IN /\ SetStores(ShutdownOn(Stores, ids))
     /\ stop_accepted' = [id \in SessionIds |-> stop_accepted[id] \/ id \in ids]
     /\ executor_shutdown' = TRUE
     /\ UNCHANGED <<now, setup_failed, notSessionVars>>

\* A thread of the pool takes a queued future and runs search_and_improve.
WorkerStarts(f) ==
  /\ variant = "M"
  /\ futures[f] = "queued"
  /\ WorkerFree(Cardinality(Running), max_workers)
  /\ futures' = [futures EXCEPT ![f] = "running"]
  /\ UNCHANGED <<now, research_sessions, db, active_tasks, executor_shutdown,
                 stop_accepted, setup_failed,
                 notSessionVars>>

\* search_and_improve returns after an `answer' verdict (line 607), returns
\* after the loop (line 655), or raises out of the call at line 617; neither
\* the engine nor the session manager reads the future or writes the status.
WorkerEnds(f) ==
  /\ futures[f] = "running"
  /\ \E outcome \in {"answered", "returned", "raised"} :
       futures' = [futures EXCEPT ![f] = outcome]
  /\ UNCHANGED <<now, research_sessions, db, active_tasks, executor_shutdown,
                 stop_accepted, setup_failed,
                 notSessionVars>>

-----------------------------------------------------------------------------
(***************************************************************************)
(* The worker pools alone, with more loops submitted than a pool has       *)
(* threads: self.executor of SessionManager ("M") and the module-level     *)
(* executor of main.py ("A").                                              *)
(***************************************************************************)

\* executor = ThreadPoolExecutor(max_workers=1) of main.py
main_max_workers == 1

\* The size of the pool that runs the loops of this implementation.
PoolSize == IF variant = "A" THEN main_max_workers ELSE max_workers

\* Loops submitted over one exploration of the pools: one more than the
\* larger pool has threads.
PoolFutures == max_workers + 1

\* executor.submit(...): begin_research of main.py, SessionManager.start_research
PoolSubmit ==
  /\ FreeFuture # NoTask
  /\ futures' = [futures EXCEPT ![FreeFuture] = "queued"]
  /\ UNCHANGED <<now, research_sessions, db, active_tasks, executor_shutdown,
                 stop_accepted, setup_failed, notSessionVars>>

\* future.cancel() of stop_research, on whatever future it finds
PoolCancel(f) ==
  /\ futures[f] \in {"queued", "running"}
  /\ futures' = FutureCancel(futures, f)
  /\ UNCHANGED <<now, research_sessions, db, active_tasks, executor_shutdown,
                 stop_accepted, setup_failed, notSessionVars>>

\* The thread of main.py's pool takes a queued future and calls run_search.
RunSearchStarts(f) ==
  /\ variant = "A"
  /\ futures[f] = "queued"
  /\ WorkerFree(Cardinality(Running), main_max_workers)
  /\ futures' = [futures EXCEPT ![f] = "running"]
  /\ UNCHANGED <<now, research_sessions, db, active_tasks, executor_shutdown,
                 stop_accepted, setup_failed, notSessionVars>>

-----------------------------------------------------------------------------
(***************************************************************************)
(* The event channel of one session: the queue between the worker thread   *)
(* that runs the Research Loop and the broadcaster task that sends events  *)
(* to the attached observers.  Two implementations exist:                  *)
(*   "A"  src/api/main.py: AsyncMessageHandler, process_messages and the   *)
(*        websocket endpoint, over module-level dicts;                     *)
(*   "M"  src/api/search_engine_manager.py: WebSocketMessageHandler and    *)
(*        AsyncSearchEngine.stop put on the queues that                    *)
(*        src/api/websocket_manager.py keeps, and the session manager puts *)
(*        its status updates on them.                                      *)
(* The endpoints and the broadcaster run on the event-loop thread, so      *)
(* between two awaits nothing else of that thread runs; the handlers run   *)
(* on the worker thread and interleave with everything.                    *)
(***************************************************************************)

\* Observers (websocket connections) of the session.
Observers == {"o1"}

\* queue.Queue objects the session can have at one time.
QueueIds == {"q1", "q2"}
NoQueue == "none"

\* Queue(maxsize=1000), scaled down.
QueueCap == 2

\* Events emitted in one execution.
MaxEmits == 3

\* Largest number of broadcaster tasks followed for one session.
MaxDrainLoops == 2

\* What a caller hands to a handler: a type (a stage, for "M") and a text.
Kinds ==
  { [type |-> "info",  message |-> "working"],
    [type |-> "info",  message |-> "done"],
    [type |-> "error", message |-> "working"],
    [type |-> "info",  message |-> " "] }

\* self._last_message = None
NoMessage == [type |-> "none", message |-> ""]

\* str.strip on the texts of Kinds.
Strip(text) == IF text = " " THEN "" ELSE text

\* queue.Queue.full
Full(q) == Len(q) >= QueueCap

QueueGetNewest(q) ==
  [message |-> q[Len(q)], rest |-> SubSeq(q, 1, Len(q) - 1)]

\* queue.Queue.get_nowait on a queue that is not empty: the oldest event.
QueueGet(q) == [message |-> Head(q), rest |-> Tail(q)]

\* queue.Queue.put on a queue that is not full: the event becomes the newest.
QueuePut(q, m) == Append(q, m)

\* An object nothing refers to is garbage: its events are gone.
Sweep(qs, refs) == [q \in QueueIds |-> IF q \in refs THEN qs[q] ELSE <<>>]

\* queue.Queue(maxsize=1000): an object not in use.
Unused == QueueIds \ {message_queues, bc_queue, put_target}
FreshQueue == CHOOSE q \in Unused : TRUE

conn    == <<active_connections, connection_status>>
handler == <<stop_event, last_message>>
task    == <<broadcaster, bc_queue, in_hand, drain_loops>>
worker  == <<producer, pending, put_target>>
begun   == <<session_registered, loop_submitted, observed_at_begin>>

\* The n-th emission; an observer is attached throughout if it was attached
\* before the first one and never detached.
Emit(event) ==
  /\ emitted' = Append(emitted, event)
  /\ throughout' = IF emitted = <<>> THEN active_connections ELSE throughout

\* The event-loop thread is between two awaits and not inside a blocking call.
LoopThreadFree == event_loop = "free" /\ broadcaster # "requeue"

(* ---- observers ---- *)

\* websocket_endpoint of main.py, up to the receive loop
A_Connect(o) ==
  /\ variant = "A"
  /\ LoopThreadFree
  /\ o \notin active_connections
  /\ active_connections' = active_connections \cup {o}
  /\ UNCHANGED <<connection_status, queues, message_queues,
                 message_processing_tasks, handler, task, worker, event_loop,
                 begun, emitted, accepted, delivered, throughout>>
  /\ UNCHANGED notChannelVars

\* websocket_endpoint of main.py, finally clause
A_Disconnect(o) ==
  /\ variant = "A"
  /\ LoopThreadFree
  /\ o \in active_connections
  /\ active_connections' = active_connections \ {o}
  /\ throughout' = throughout \ {o}
  /\ UNCHANGED <<connection_status, queues, message_queues,
                 message_processing_tasks, handler, task, worker, event_loop,
                 begun, emitted, accepted, delivered>>
  /\ UNCHANGED notChannelVars

\* WebSocketManager.connect.  Its confirmation goes to the sockets directly,
\* not through the queue.
M_Connect(o) ==
  /\ variant = "M"
  /\ LoopThreadFree
  /\ o \notin active_connections
  /\ message_queues = NoQueue => Unused # {}
  /\ active_connections' = active_connections \cup {o}
  /\ message_queues' =
       IF message_queues = NoQueue THEN FreshQueue ELSE message_queues
  /\ connection_status' = TRUE
  /\ UNCHANGED <<queues, message_processing_tasks, handler, task, worker,
                 event_loop, begun, emitted, accepted, delivered, throughout>>
  /\ UNCHANGED notChannelVars

\* WebSocketManager.disconnect, and _cleanup_session when the last observer
\* leaves: the queue is deleted with whatever it holds.
M_Disconnect(o) ==
  /\ variant = "M"
  /\ LoopThreadFree
  /\ o \in active_connections
  /\ active_connections' = active_connections \ {o}
  /\ throughout' = throughout \ {o}
  /\ IF active_connections' = {}
       THEN /\ message_queues' = NoQueue
            /\ message_processing_tasks' = FALSE
            /\ connection_status' = FALSE
            /\ queues' = Sweep(queues, {bc_queue, put_target})
       ELSE UNCHANGED <<message_queues, message_processing_tasks,
                        connection_status, queues>>
  /\ UNCHANGED <<handler, task, worker, event_loop, begun, emitted, accepted,
                 delivered>>
  /\ UNCHANGED notChannelVars

(* ---- begin ---- *)

\* begin_research of main.py: refused (HTTPException) without an observer;
\* otherwise AsyncSearchEngine.__init__ makes the handler and its queue, the
\* session is registered, the broadcaster is scheduled and the loop submitted.
A_BeginResearch ==
  /\ variant = "A"
  /\ LoopThreadFree
  /\ ~session_registered
  /\ active_connections # {}
  /\ message_queues' = FreshQueue
  /\ message_processing_tasks' = FALSE
  /\ stop_event' = FALSE
  /\ last_message' = NoMessage
  /\ session_registered' = TRUE
  /\ broadcaster' = "scheduled"
  /\ loop_submitted' = TRUE
  /\ observed_at_begin' = TRUE
  /\ UNCHANGED <<conn, queues, bc_queue, in_hand, drain_loops, worker,
                 event_loop, emitted,
                 accepted, delivered, throughout>>
  /\ UNCHANGED notChannelVars

\* message_queue.put(event) by a caller on the event-loop thread, after
\* WebSocketManager.get_message_queue: a blocking put.
ControlPut(q, event) ==
  /\ Emit(event)
  /\ IF Full(queues[q])
       THEN /\ event_loop' = "control_put"
            /\ UNCHANGED <<queues, accepted>>
       ELSE /\ queues' = [queues EXCEPT ![q] = QueuePut(@, Len(emitted) + 1)]
            /\ accepted' = accepted \cup {Len(emitted) + 1}
            /\ UNCHANGED event_loop

\* start_research of research_router.py calling SessionManager.start_research,
\* up to executor.submit: the loop is submitted to the pool, and the caller
\* goes on to the lines that put the status running.
M_StartResearch ==
  /\ variant = "M"
  /\ LoopThreadFree
  /\ ~loop_submitted
  /\ Len(emitted) < MaxEmits
  /\ message_queues = NoQueue => Unused # {}
  /\ loop_submitted' = TRUE
  /\ observed_at_begin' = (active_connections # {})
  /\ event_loop' = "start_put"
  /\ UNCHANGED <<session_registered, conn, queues, message_queues,
                 message_processing_tasks, handler, task, worker, emitted,
                 accepted, delivered, throughout>>
  /\ UNCHANGED notChannelVars

\* SessionManager.start_research after executor.submit: get_message_queue,
\* then the status running is put on the queue with a blocking put.
M_StartResearchPut ==
  /\ variant = "M"
  /\ event_loop = "start_put"
  /\ LET q == IF message_queues = NoQueue THEN FreshQueue ELSE message_queues
         n == Len(emitted) + 1
     IN  /\ message_queues' = q
         /\ Emit([type |-> "status", message |-> "", by |-> "control"])
         /\ IF Full(queues[q])
              THEN /\ event_loop' = "control_put"
                   /\ UNCHANGED <<queues, accepted>>
              ELSE /\ queues' = [queues EXCEPT ![q] = QueuePut(@, n)]
                   /\ accepted' = accepted \cup {n}
                   /\ event_loop' = "free"
  /\ UNCHANGED <<begun, conn, message_processing_tasks, handler, task, worker,
                 delivered>>
  /\ UNCHANGED notChannelVars

\* AsyncSearchEngine.stop of search_engine_manager.py, as far as the channel
\* sees it: the status stopped is put on the queue, if there is one.
M_StopPut ==
  /\ variant = "M"
  /\ LoopThreadFree
  /\ Len(emitted) < MaxEmits
  /\ message_queues # NoQueue
  /\ ControlPut(message_queues,
                [type |-> "status", message |-> "Research stopped",
                 by |-> "control"])
  /\ UNCHANGED <<begun, conn, message_queues, message_processing_tasks,
                 handler, task, worker, delivered>>
  /\ UNCHANGED notChannelVars

\* AsyncSearchEngine.stop of main.py calling AsyncMessageHandler.stop
A_HandlerStop ==
  /\ variant = "A"
  /\ LoopThreadFree
  /\ session_registered
  /\ ~stop_event
  /\ stop_event' = TRUE
  /\ message_processing_tasks' = FALSE
  /\ UNCHANGED <<begun, conn, queues, message_queues, last_message, task,
                 worker, event_loop, emitted, accepted, delivered, throughout>>
  /\ UNCHANGED notChannelVars

(* ---- producers ---- *)

\* AsyncMessageHandler.handle_message
A_HandleMessage(k) ==
  /\ variant = "A"
  /\ loop_submitted
  /\ Len(emitted) < MaxEmits
  /\ Emit([type |-> k.type, message |-> k.message, by |-> "loop"])
  /\ LET message == [type |-> k.type, message |-> Strip(k.message)]
         n == Len(emitted) + 1
     IN  IF stop_event \/ message.message = "" \/ message = last_message
           THEN UNCHANGED <<last_message, queues, accepted>>
           ELSE /\ last_message' = message
                /\ IF Full(queues[message_queues])
                     THEN UNCHANGED <<queues, accepted>>
                     ELSE /\ queues' = [queues EXCEPT ![message_queues] =
                                          QueuePut(@, n)]
                          /\ accepted' = accepted \cup {n}
  /\ UNCHANGED <<begun, conn, message_queues, message_processing_tasks,
                 stop_event, task, worker, event_loop, delivered>>
  /\ UNCHANGED notChannelVars

\* WebSocketMessageHandler.send_progress_update: the type is always progress,
\* the put blocks while the queue is full.
M_SendProgressUpdate(k) ==
  /\ variant = "M"
  /\ loop_submitted
  /\ producer = "ready"
  /\ Len(emitted) < MaxEmits
  /\ Emit([type |-> "progress", message |-> k.message, by |-> "loop"])
  /\ LET n == Len(emitted) + 1
     IN  IF message_queues = NoQueue
           THEN UNCHANGED <<queues, accepted, worker>>
           ELSE IF Full(queues[message_queues])
             THEN /\ producer' = "blocked"
                  /\ pending' = n
                  /\ put_target' = message_queues
                  /\ UNCHANGED <<queues, accepted>>
             ELSE /\ queues' = [queues EXCEPT ![message_queues] =
                                  QueuePut(@, n)]
                  /\ accepted' = accepted \cup {n}
                  /\ UNCHANGED worker
  /\ UNCHANGED <<begun, conn, message_queues, message_processing_tasks,
                 handler, task, event_loop, delivered>>
  /\ UNCHANGED notChannelVars

\* The put of a blocked worker returns once the queue has room.
M_PutReturns ==
  /\ variant = "M"
  /\ producer = "blocked"
  /\ ~Full(queues[put_target])
  /\ producer' = "ready"
  /\ pending' = 0
  /\ put_target' = NoQueue
  /\ accepted' = accepted \cup {pending}
  /\ queues' = Sweep([queues EXCEPT ![put_target] = QueuePut(@, pending)],
                     {message_queues, bc_queue})
  /\ UNCHANGED <<begun, conn, message_queues, message_processing_tasks,
                 handler, task, event_loop, emitted, delivered, throughout>>
  /\ UNCHANGED notChannelVars

(* ---- broadcaster ---- *)

\* Loop condition of process_messages in main.py
A_Running == session_registered /\ message_processing_tasks

\* Loop condition of WebSocketManager.process_messages
M_Running ==
  session_registered /\ message_processing_tasks /\ connection_status

\* session_id in active_connections and active_connections[session_id]
A_IsConnected == active_connections # {}

\* WebSocketManager.is_connected
M_IsConnected == active_connections # {} /\ connection_status

\* get_nowait and broadcast_message: the oldest event of the queue goes to
\* every observer attached.
Broadcast ==
  /\ broadcaster = "loop"
  /\ event_loop = "free"
  /\ queues[bc_queue] # <<>>
  /\ LET got == QueueGet(queues[bc_queue])
     IN  /\ queues' = [queues EXCEPT ![bc_queue] = got.rest]
         /\ delivered' =
              [o \in Observers |->
                 IF o \in active_connections
                   THEN Append(delivered[o], got.message)
                   ELSE delivered[o]]
  /\ UNCHANGED <<begun, conn, message_queues, message_processing_tasks,
                 handler, task, worker, event_loop, emitted, accepted,
                 throughout>>
  /\ UNCHANGED notChannelVars

\* The task ends: the finally clause of process_messages.
Exit ==
  /\ broadcaster = "loop"
  /\ event_loop = "free"
  /\ drain_loops' = drain_loops - 1
  /\ broadcaster' = IF drain_loops' = 0 THEN "idle" ELSE "loop"
  /\ bc_queue' = IF drain_loops' = 0 THEN NoQueue ELSE bc_queue
  /\ message_processing_tasks' = FALSE
  /\ UNCHANGED <<begun, in_hand, handler, worker, event_loop, emitted,
                 accepted, delivered, throughout>>
  /\ UNCHANGED notChannelVars

\* process_messages of main.py, from its first line to the loop
A_ProcessMessages ==
  /\ variant = "A"
  /\ broadcaster = "scheduled"
  /\ event_loop = "free"
  /\ IF message_processing_tasks \/ message_queues = NoQueue
       THEN /\ broadcaster' = "idle"
            /\ UNCHANGED <<message_processing_tasks, bc_queue, drain_loops>>
       ELSE /\ broadcaster' = "loop"
            /\ message_processing_tasks' = TRUE
            /\ bc_queue' = message_queues
            /\ drain_loops' = drain_loops + 1
  /\ UNCHANGED <<begun, conn, queues, message_queues, handler, in_hand, worker,
                 event_loop, emitted, accepted, delivered, throughout>>
  /\ UNCHANGED notChannelVars

\* process_messages of main.py, an iteration that finds an observer
A_Broadcast ==
  /\ variant = "A"
  /\ A_Running
  /\ A_IsConnected
  /\ Broadcast

\* process_messages of main.py, an iteration that finds no observer: the event
\* is taken from the queue ...
A_RequeueGet ==
  /\ variant = "A"
  /\ broadcaster = "loop"
  /\ event_loop = "free"
  /\ A_Running
  /\ ~A_IsConnected
  /\ queues[bc_queue] # <<>>
  /\ LET got == QueueGet(queues[bc_queue])
     IN  /\ queues' = [queues EXCEPT ![bc_queue] = got.rest]
         /\ in_hand' = got.message
  /\ broadcaster' = "requeue"
  /\ UNCHANGED <<begun, conn, message_queues, message_processing_tasks,
                 handler, bc_queue, drain_loops, worker, event_loop, emitted,
                 accepted, delivered, throughout>>
  /\ UNCHANGED notChannelVars

\* ... and put back with a blocking put, behind whatever the worker has put in
\* the meantime.
A_RequeuePut ==
  /\ variant = "A"
  /\ broadcaster = "requeue"
  /\ event_loop = "free"
  /\ IF Full(queues[bc_queue])
       THEN /\ event_loop' = "requeue_put"
            /\ UNCHANGED <<queues, broadcaster, in_hand>>
       ELSE /\ queues' = [queues EXCEPT ![bc_queue] = QueuePut(@, in_hand)]
            /\ broadcaster' = "loop"
            /\ in_hand' = 0
            /\ UNCHANGED event_loop
  /\ UNCHANGED <<begun, conn, message_queues, message_processing_tasks,
                 handler, bc_queue, drain_loops, worker, emitted, accepted,
                 delivered, throughout>>
  /\ UNCHANGED notChannelVars

\* process_messages of main.py, the loop condition fails
A_Exit ==
  /\ variant = "A"
  /\ ~A_Running
  /\ Exit
  /\ IF session_registered
       THEN UNCHANGED <<message_queues, queues>>
       ELSE /\ message_queues' = NoQueue
            /\ queues' = Sweep(queues, {put_target})
  /\ UNCHANGED conn

\* WebSocketManager.process_messages, from its first line to the loop.  No
\* code of src/ calls it; a caller may call it while no such task runs, or
\* while one drains the same queue (up to MaxDrainLoops tasks).
M_ProcessMessages ==
  /\ variant = "M"
  /\ broadcaster \in {"idle", "loop"}
  /\ drain_loops < MaxDrainLoops
  /\ broadcaster = "loop" => message_queues = bc_queue
  /\ event_loop = "free"
  /\ drain_loops' = drain_loops + 1
  /\ message_queues = NoQueue => Unused # {}
  /\ message_queues' =
       IF message_queues = NoQueue THEN FreshQueue ELSE message_queues
  /\ message_processing_tasks' = TRUE
  /\ bc_queue' = message_queues'
  /\ broadcaster' = "loop"
  /\ UNCHANGED <<begun, conn, queues, handler, in_hand, worker, event_loop,
                 emitted, accepted, delivered, throughout>>
  /\ UNCHANGED notChannelVars

\* WebSocketManager.process_messages, an iteration.  While the loop condition
\* holds is_connected holds too (the last disconnect clears connection_status),
\* so the branch that puts the event back never runs.
M_Broadcast ==
  /\ variant = "M"
  /\ M_Running
  /\ M_IsConnected
  /\ Broadcast

\* WebSocketManager.process_messages, the loop condition fails
M_Exit ==
  /\ variant = "M"
  /\ ~M_Running
  /\ Exit
  /\ IF session_registered
       THEN /\ queues' = Sweep(queues, {message_queues, put_target})
            /\ UNCHANGED <<message_queues, conn>>
       ELSE /\ message_queues' = NoQueue
            /\ connection_status' = FALSE
            /\ active_connections' = {}
            /\ queues' = Sweep(queues, {put_target})

-----------------------------------------------------------------------------
(* The stage functions of the engines "E" and "M", one call at a time.     *)
(* The engine "A" inherits those of "E": its overrides call super() and    *)
(* re-raise.  A text is the sequence of its characters or words.           *)

max_retries == 3

\* The value of a call that has not returned.
NoResult ==
  [urls |-> <<>>, decision |-> <<>>, evaluation |-> <<>>, query |-> <<>>,
   time_range |-> <<>>, text |-> <<>>]

\* A function returned `value' after `calls' calls of the model, or an
\* exception of the model left it after that many.
Return(calls, value) == [returned |-> "returned", calls |-> calls, value |-> value]
Raise(calls) == [returned |-> "raised", calls |-> calls, value |-> NoResult]

\* list[:n]
Take(list, n) == SubSeq(list, 1, Min(n, Len(list)))

\* str.strip: the text without the white space at its two ends.
RECURSIVE str_lstrip(_)
str_lstrip(text) ==
  IF text # <<>> /\ Head(text) = " " THEN str_lstrip(Tail(text)) ELSE text

RECURSIVE str_rstrip(_)
str_rstrip(text) ==
  IF text # <<>> /\ text[Len(text)] = " "
  THEN str_rstrip(SubSeq(text, 1, Len(text) - 1))
  ELSE text

str_strip(text) == str_rstrip(str_lstrip(text))

\* LLMWrapper.generate: the text of the model, stripped; an exception of the
\* third try inside it is raised to the caller.
generate(reply) == str_strip(reply.text)

(* ---- select_relevant_pages ---- *)

\* perform_search numbers the results of the provider from 1, in rank order.
Numbered(hrefs) == [i \in 1..Len(hrefs) |-> [number |-> i, href |-> hrefs[i]]]

RECURSIVE Orders(_)
Orders(S) ==
  IF S = {} THEN {<<>>}
  ELSE UNION { { <<x>> \o rest : rest \in Orders(S \ {x}) } : x \in S }

\* The result lists: up to three results with different hrefs.
ResultLists ==
  { Numbered(o) : o \in UNION { Orders(S) : S \in SUBSET {"u1", "u2", "u3"} } }

Hrefs(results) == { results[i].href : i \in 1..Len(results) }

\* The replies to the selection prompt: the call raises, or the text has a
\* line `Selected Results:' with these numbers in it (re.findall(r'\d+')) and
\* a line `Reasoning:', or lacks one of the two.
SelectionReplies ==
  { [raises |-> TRUE, selected |-> FALSE, reasoning |-> FALSE, nums |-> <<>>],
    [raises |-> FALSE, selected |-> FALSE, reasoning |-> TRUE, nums |-> <<>>],
    [raises |-> FALSE, selected |-> TRUE, reasoning |-> FALSE, nums |-> <<1, 2>>] }
  \cup
  { [raises |-> FALSE, selected |-> TRUE, reasoning |-> TRUE, nums |-> n] :
      n \in { <<>>, <<1, 2>>, <<3, 2>>, <<2, 2>>, <<1, 4>>, <<1, 2, 3>> } }

\* web_scraper.can_fetch, the fetch-policy collaborator.
can_fetch(url) == url \in permitted

Unfiltered(urls) == urls

\* [url for url in urls if can_fetch(url)]
Allowed(urls) == SelectSeq(urls, can_fetch)

\* [result['href'] for result in results]
HrefList(results) == [i \in 1..Len(results) |-> results[i].href]

\* [result['href'] for result in search_results if result['number'] in nums]
SelectedUrls(results, nums) ==
  HrefList(SelectSeq(results,
             LAMBDA r : \E i \in 1..Len(nums) : nums[i] = r.number))

validate_page_selection_response(nums, num_results) ==
  /\ Len(nums) = 2
  /\ \A i \in 1..Len(nums) : ~(nums[i] < 1 \/ nums[i] > num_results)

\* The reply is parsed (parse_page_selection_response: None unless both lines
\* are there), valid, and names a result that may be fetched.
E_Accepted(reply, results) ==
  /\ reply.selected /\ reply.reasoning
  /\ validate_page_selection_response(reply.nums, Len(results))
  /\ Allowed(SelectedUrls(results, reply.nums)) # <<>>

RECURSIVE E_SelectFrom(_, _, _)
E_SelectFrom(retry, results, rs) ==
  IF retry > max_retries
  THEN Return(max_retries,
              [NoResult EXCEPT !.urls = Take(Allowed(HrefList(results)), 2)])
  ELSE IF rs[retry].raises THEN Raise(retry)
  ELSE IF E_Accepted(rs[retry], results)
  THEN Return(retry,
         [NoResult EXCEPT !.urls = Allowed(SelectedUrls(results, rs[retry].nums))])
  ELSE E_SelectFrom(retry + 1, results, rs)

\* The outcome of a call is written down.
Returns(outcome) ==
  /\ returned = "pending"
  /\ returned' = outcome.returned
  /\ model_calls' = outcome.calls
  /\ result' = outcome.value
  /\ UNCHANGED <<called, search_results, permitted, user_query, replies>>
  /\ UNCHANGED <<scrape_urls, fetchable, successful_urls, failed_urls>>
  /\ UNCHANGED notStageVars

E_select_relevant_pages ==
  /\ variant = "E" /\ called = "select"
  /\ Returns(E_SelectFrom(1, search_results, replies))

M_select_relevant_pages ==
  /\ variant = "M" /\ called = "select"
  /\ LET selected_nums ==
           IF replies[1].selected THEN replies[1].nums ELSE <<>>
     IN  Returns(
           IF replies[1].raises THEN Raise(1)
           ELSE IF Len(selected_nums) = 2
           THEN Return(1, [NoResult EXCEPT !.urls =
                  Allowed(SelectedUrls(search_results, selected_nums))])
           ELSE Return(1, [NoResult EXCEPT !.urls =
                  Allowed(HrefList(Take(search_results, 2)))]))

(* ---- evaluate_scraped_content, evaluate_content ---- *)

\* str.lower, on the words the replies are made of.
str_lower_word(word) ==
  CASE word = "ANSWER" -> "answer"
    [] word = "Refine" -> "refine"
    [] word = "D"      -> "d"
    [] word = "W"      -> "w"
    [] word = "None"   -> "none"
    [] OTHER           -> word

str_lower(text) == [i \in 1..Len(text) |-> str_lower_word(text[i])]

\* The replies to the evaluation prompt: the call raises, or the text has a
\* line `Evaluation:' and perhaps a line `Decision:' with this after the colon.
EvaluationReplies ==
  { [raises |-> TRUE, decision_line |-> FALSE, decision |-> <<>>,
     evaluation |-> <<>>],
    [raises |-> FALSE, decision_line |-> FALSE, decision |-> <<>>,
     evaluation |-> <<" ", "thin">>] }
  \cup
  { [raises |-> FALSE, decision_line |-> TRUE, decision |-> d,
     evaluation |-> <<" ", "thin">>] :
      d \in { <<" ", "answer">>, <<" ", "Refine", " ">>, <<" ", "ANSWER">>,
              <<" ", "maybe">>, <<>> } }

\* parse_evaluation_response: decision is "" without a line `Decision:'.
parse_evaluation_response(reply) ==
  [evaluation |-> str_strip(reply.evaluation),
   decision |-> IF reply.decision_line
                THEN str_lower(str_strip(reply.decision))
                ELSE <<>>]

RECURSIVE E_EvaluateFrom(_, _)
E_EvaluateFrom(try, rs) ==
  IF try > max_retries
  THEN Return(max_retries,
              [NoResult EXCEPT !.evaluation = <<"Failed to evaluate content.">>,
                               !.decision = <<"refine">>])
  ELSE IF ~rs[try].raises
          /\ parse_evaluation_response(rs[try]).decision
               \in {<<"answer">>, <<"refine">>}
  THEN Return(try,
         [NoResult EXCEPT
            !.evaluation = parse_evaluation_response(rs[try]).evaluation,
            !.decision = parse_evaluation_response(rs[try]).decision])
  ELSE E_EvaluateFrom(try + 1, rs)

E_evaluate_scraped_content ==
  /\ variant = "E" /\ called = "evaluate"
  /\ Returns(E_EvaluateFrom(1, replies))

\* evaluate_content: decision is "refine" without a line `Decision:'.
M_evaluate_content ==
  /\ variant = "M" /\ called = "evaluate"
  /\ Returns(
       IF replies[1].raises THEN Raise(1)
       ELSE Return(1,
              [NoResult EXCEPT
                 !.evaluation = str_strip(replies[1].evaluation),
                 !.decision = IF replies[1].decision_line
                              THEN str_lower(str_strip(replies[1].decision))
                              ELSE <<"refine">>]))

(* ---- formulate_query ---- *)

\* The questions: more than five words, and fewer.
UserQueries ==
  { <<"how", "do", "lock", "free", "queues", "work">>, <<"rust", "async">> }

\* The replies to the formulation prompt: the call raises, or the text has
\* perhaps a line whose key holds `query' and perhaps one whose key holds
\* `time' or `range', with these texts after the colon.
FormulationReplies ==
  { [raises |-> TRUE, query_line |-> FALSE, query |-> <<>>,
     time_line |-> FALSE, time |-> <<>>] }
  \cup
  { [raises |-> FALSE, query_line |-> q[1], query |-> q[2],
     time_line |-> t[1], time |-> t[2]] :
      q \in { <<FALSE, <<>>>>,
              <<TRUE, <<" ", "\"", "\"">>>>,
              <<TRUE, <<" ", "[", "lock", " ", " ", "free", "]">>>> },
      t \in { <<FALSE, <<>>>>,
              <<TRUE, <<" ", "W">>>>,
              <<TRUE, <<" ", "m", " ">>>>,
              <<TRUE, <<" ", "week">>>>,
              <<TRUE, <<" ", "none">>>> } }

\* re.sub(r'\s+', ' ', query)
RECURSIVE CollapseSpaces(_)
CollapseSpaces(text) ==
  IF Len(text) < 2 THEN text
  ELSE IF text[1] = " " /\ text[2] = " " THEN CollapseSpaces(Tail(text))
  ELSE <<Head(text)>> \o CollapseSpaces(Tail(text))

\* clean_query, _clean_query
clean_query(query) ==
  Take(str_strip(CollapseSpaces(
         SelectSeq(query, LAMBDA c : c \notin {"\"", "'", "[", "]"}))), 100)

\* validate_time_range, _validate_time_range
validate_time_range_unchecked(time_range) == str_lower(time_range)
validate_time_range(time_range) ==
  LET valid_ranges == {<<"d">>, <<"w">>, <<"m">>, <<"y">>, <<"none">>}
  IN  IF str_lower(time_range) \in valid_ranges
      THEN str_lower(time_range)
      ELSE <<"none">>

\* parse_query_response, and the same lines of "M": query = "",
\* time_range = "none" unless a line sets them.
parse_query_response(reply) ==
  [query |-> IF reply.query_line
             THEN clean_query(str_strip(reply.query))
             ELSE <<>>,
   time_range |-> IF reply.time_line
                  THEN validate_time_range(str_strip(reply.time))
                  ELSE <<"none">>]

\* " ".join(words)
RECURSIVE Join(_)
Join(words) ==
  IF Len(words) < 2 THEN words
  ELSE <<Head(words), " ">> \o Join(Tail(words))

\* fallback_query: " ".join(user_query.split()[:5])
fallback_query(words) == Join(Take(words, 5))

RECURSIVE E_FormulateFrom(_, _, _)
E_FormulateFrom(retry, words, rs) ==
  IF retry > max_retries
  THEN Return(max_retries,
              [NoResult EXCEPT !.query = fallback_query(words),
                               !.time_range = <<"none">>])
  ELSE IF rs[retry].raises THEN Raise(retry)
  ELSE IF /\ parse_query_response(rs[retry]).query # <<>>
          /\ parse_query_response(rs[retry]).time_range # <<>>
  THEN Return(retry,
         [NoResult EXCEPT
            !.query = parse_query_response(rs[retry]).query,
            !.time_range = parse_query_response(rs[retry]).time_range])
  ELSE E_FormulateFrom(retry + 1, words, rs)

E_formulate_query ==
  /\ variant = "E" /\ called = "formulate"
  /\ Returns(E_FormulateFrom(1, user_query, replies))

M_formulate_query ==
  /\ variant = "M" /\ called = "formulate"
  /\ Returns(
       IF replies[1].raises THEN Raise(1)
       ELSE Return(1,
              [NoResult EXCEPT
                 !.query = IF parse_query_response(replies[1]).query = <<>>
                           THEN Join(Take(user_query, 5))
                           ELSE parse_query_response(replies[1]).query,
                 !.time_range = parse_query_response(replies[1]).time_range]))

(* ---- scrape_content ---- *)

\* The keys of the map scrape_content returns, in the order they were put:
\* the URLs that may be fetched and for which get_web_content gave a text.
ScrapedKeys(list) ==
  SelectSeq(list, LAMBDA url : can_fetch(url) /\ url \in fetchable)

\* The research details are those of AsyncSearchEngine.__init__: nothing is
\* ever added to failed_urls.
M_scrape_content ==
  /\ variant = "M" /\ called = "scrape"
  /\ returned = "pending"
  /\ returned' = "returned"
  /\ result' = [NoResult EXCEPT !.urls = ScrapedKeys(scrape_urls)]
  /\ successful_urls' =
       successful_urls \cup
         { scrape_urls[k] : k \in { i \in 1..Len(scrape_urls) :
                                      /\ can_fetch(scrape_urls[i])
                                      /\ scrape_urls[i] \in fetchable } }
  /\ UNCHANGED <<failed_urls, model_calls>>
  /\ UNCHANGED <<called, search_results, permitted, user_query, replies>>
  /\ UNCHANGED <<scrape_urls, fetchable>>
  /\ UNCHANGED notStageVars

\* The engine "E" keeps no research details: it sends messages only.
E_scrape_content ==
  /\ variant = "E" /\ called = "scrape"
  /\ returned = "pending"
  /\ returned' = "returned"
  /\ result' = [NoResult EXCEPT !.urls = ScrapedKeys(scrape_urls)]
  /\ UNCHANGED <<successful_urls, failed_urls, model_calls>>
  /\ UNCHANGED <<called, search_results, permitted, user_query, replies>>
  /\ UNCHANGED <<scrape_urls, fetchable>>
  /\ UNCHANGED notStageVars

(* ---- generate_final_answer, synthesize_final_answer, generate_answer ---- *)

\* The replies to a synthesis prompt: the call raises, or the model writes
\* this text.
AnswerReplies ==
  { [raises |-> TRUE, text |-> <<>>] }
  \cup
  { [raises |-> FALSE, text |-> t] :
      t \in { <<>>, <<" ">>, <<"fine">>, <<" ", "fine", " ", "words", " ">> } }

RECURSIVE E_GenerateFrom(_, _)
E_GenerateFrom(try, rs) ==
  IF try > max_retries THEN Return(max_retries, [NoResult EXCEPT !.text = <<CouldNotGenerate>>])
  ELSE IF rs[try].raises THEN Raise(try)
  ELSE IF generate(rs[try]) # <<>>
  THEN Return(try, [NoResult EXCEPT !.text = generate(rs[try])])
  ELSE E_GenerateFrom(try + 1, rs)

E_generate_final_answer ==
  /\ variant = "E" /\ called = "generate"
  /\ Returns(E_GenerateFrom(1, replies))

E_synthesize_final_answer ==
  /\ variant = "E" /\ called = "synthesize"
  /\ Returns(
       IF ~replies[1].raises /\ generate(replies[1]) # <<>>
       THEN Return(1, [NoResult EXCEPT
                         !.text = str_strip(generate(replies[1]))])
       ELSE Return(1, [NoResult EXCEPT !.text = <<NotAbleToFind>>]))

M_generate_answer ==
  /\ variant = "M" /\ called = "generate"
  /\ Returns(
       IF replies[1].raises THEN Raise(1)
       ELSE Return(1, [NoResult EXCEPT
                         !.text = str_strip(generate(replies[1]))]))

-----------------------------------------------------------------------------

\* The engine before search_and_improve is called.
LoopInit ==
  /\ pc = "idle"
  /\ attempt = 0
  /\ stop_requested = FALSE
  /\ queue_present = TRUE
  /\ search_query = ""
  /\ selected_urls = {}
  /\ scraped_content = EmptyContent
  /\ current_confidence = 0
  /\ best_content = EmptyContent
  /\ best_confidence = 0
  /\ source_metrics = <<>>
  /\ answer = NoAnswer
  /\ results_emitted = 0
  /\ completed_emitted = FALSE
  /\ reported_confidences = {}
  /\ form_calls = <<>>
  /\ max_conf_seen = 0
  /\ answer_verdict = FALSE
  /\ synth_raised = FALSE
  /\ late_call = FALSE
  /\ search_nonempty = FALSE
  /\ empty_searches = 0
  /\ evaluated = FALSE
  /\ llm_synth = FALSE
  /\ synth_content = EmptyContent
  /\ stop_in_stage = FALSE
  /\ stage_after_stop = FALSE
  /\ exceptions = 0
  /\ exception_events = 0
  /\ empty_results = 0

\* SessionManager.__init__
SessionInit ==
  /\ now = 1
  /\ research_sessions = [id \in SessionIds |-> NoEntry]
  /\ db = [id \in SessionIds |-> NoRow]
  /\ active_tasks = [id \in SessionIds |-> NoTask]
  /\ futures = [f \in 1..MaxFutures |-> "unused"]
  /\ executor_shutdown = FALSE
  /\ stop_accepted = [id \in SessionIds |-> FALSE]
  /\ setup_failed = [id \in SessionIds |-> FALSE]

\* The channel of a session nobody has begun: for "M" create_session has
\* registered the session and made its queue (get_message_queue), for "A"
\* nothing exists before begin_research.
ChannelInit ==
  /\ session_registered = (variant = "M")
  /\ active_connections = {}
  /\ connection_status = FALSE
  /\ queues = [q \in QueueIds |-> <<>>]
  /\ message_queues = IF variant = "M" THEN "q1" ELSE NoQueue
  /\ message_processing_tasks = FALSE
  /\ stop_event = FALSE
  /\ last_message = NoMessage
  /\ broadcaster = "idle"
  /\ bc_queue = NoQueue
  /\ in_hand = 0
  /\ drain_loops = 0
  /\ producer = "ready"
  /\ pending = 0
  /\ put_target = NoQueue
  /\ event_loop = "free"
  /\ loop_submitted = FALSE
  /\ observed_at_begin = FALSE
  /\ emitted = <<>>
  /\ accepted = {}
  /\ delivered = [o \in Observers |-> <<>>]
  /\ throughout = {}

\* No stage function is followed on its own.
StageInit ==
  /\ called = "none"
  /\ search_results = <<>>
  /\ permitted = {}
  /\ user_query = <<>>
  /\ replies = <<>>
  /\ returned = "pending"
  /\ model_calls = 0
  /\ result = NoResult
  /\ scrape_urls = <<>>
  /\ fetchable = {}
  /\ successful_urls = {}
  /\ failed_urls = {}

\* One engine runs its loop; the session layer and the channel are at rest.
Init ==
  /\ variant \in Variants
  /\ max_attempts \in 0..MaxBudget
  /\ LoopInit
  /\ SessionInit
  /\ ChannelInit
  /\ StageInit

Next ==
  \/ M_Start
  \/ M_FormulateReturns
  \/ M_SearchReturns
  \/ M_SelectReturns
  \/ M_ScrapeReturns
  \/ M_EvaluateReturns
  \/ M_GenerateReturns
  \/ M_FinalReturns
  \/ M_Stop
  \/ M_QueueDeleted
  \/ M_QueueCreated
  \/ E_Start
  \/ E_FormulateReturns
  \/ E_SearchReturns
  \/ E_SelectReturns
  \/ E_ScrapeReturns
  \/ E_EvaluateReturns
  \/ E_GenerateReturns
  \/ E_FinalReturns
  \/ A_Start
  \/ A_FormulateReturns
  \/ A_SearchReturns
  \/ A_SelectReturns
  \/ A_ScrapeReturns
  \/ A_EvaluateReturns
  \/ A_GenerateReturns
  \/ A_FinalReturns
  \/ A_Stop

Spec == Init /\ [][Next]_vars

\* The steps of the thread that runs the loop: a collaborator call returns or
\* raises and the loop goes on to the next call or to its end.
LoopStep ==
  \/ M_Start \/ M_FormulateReturns \/ M_SearchReturns \/ M_SelectReturns
  \/ M_ScrapeReturns \/ M_EvaluateReturns \/ M_GenerateReturns
  \/ M_FinalReturns
  \/ E_Start \/ E_FormulateReturns \/ E_SearchReturns \/ E_SelectReturns
  \/ E_ScrapeReturns \/ E_EvaluateReturns \/ E_GenerateReturns
  \/ E_FinalReturns
  \/ A_Start \/ A_FormulateReturns \/ A_SearchReturns \/ A_SelectReturns
  \/ A_ScrapeReturns \/ A_EvaluateReturns \/ A_GenerateReturns
  \/ A_FinalReturns

\* Every collaborator call returns or raises, and the thread of the loop is
\* scheduled; stop requests and observers come when they come.
SpecLoopFair == Spec /\ WF_vars(LoopStep)

\* The loops of all four engines: WebSocketSearchEngine ("W") as well.
InitWrappers ==
  /\ variant \in Variants \cup {"W"}
  /\ max_attempts \in 0..MaxBudget
  /\ LoopInit
  /\ SessionInit
  /\ ChannelInit
  /\ StageInit

SpecWrappers == InitWrappers /\ [][Next]_vars

\* The session layer works; its engines are the loop "M", not followed here.
InitSession ==
  /\ variant = "M"
  /\ max_attempts = MaxBudget
  /\ LoopInit
  /\ SessionInit
  /\ ChannelInit
  /\ StageInit

NextSession ==
  \/ Tick
  \/ create_session
  \/ \E id \in SessionIds : initialize_session(id)
  \/ \E id \in SessionIds : start_research(id)
  \/ \E id \in SessionIds : stop_research(id)
  \/ \E id \in SessionIds : cleanup_session(id)
  \/ \E id \in SessionIds : delete_session(id)
  \/ shutdown
  \/ \E f \in 1..MaxFutures : WorkerStarts(f)
  \/ \E f \in 1..MaxFutures : WorkerEnds(f)

SpecSession == InitSession /\ [][NextSession]_vars

\* The threads of the pool take queued futures, and a loop that runs comes to
\* its end (every iteration returns or adds one to attempt); the operations of
\* the session manager happen when a caller makes them.
SpecSessionFair ==
  /\ SpecSession
  /\ WF_vars(\E f \in 1..MaxFutures : WorkerStarts(f))
  /\ WF_vars(\E f \in 1..MaxFutures : WorkerEnds(f))

\* The pools work: loops are submitted, started by idle threads, cancelled
\* and ended; sessions and channels are at rest.
InitPool ==
  /\ variant \in {"A", "M"}
  /\ max_attempts = MaxBudget
  /\ LoopInit
  /\ ChannelInit
  /\ now = 1
  /\ research_sessions = [id \in SessionIds |-> NoEntry]
  /\ db = [id \in SessionIds |-> NoRow]
  /\ active_tasks = [id \in SessionIds |-> NoTask]
  /\ futures = [f \in 1..PoolFutures |-> "unused"]
  /\ executor_shutdown = FALSE
  /\ stop_accepted = [id \in SessionIds |-> FALSE]
  /\ setup_failed = [id \in SessionIds |-> FALSE]
  /\ StageInit

NextPool ==
  \/ PoolSubmit
  \/ \E f \in 1..PoolFutures : PoolCancel(f)
  \/ \E f \in 1..PoolFutures : WorkerStarts(f)
  \/ \E f \in 1..PoolFutures : RunSearchStarts(f)
  \/ \E f \in 1..PoolFutures : WorkerEnds(f)

SpecPool == InitPool /\ [][NextPool]_vars

\* The channel of one session works: observers come and go, the worker emits,
\* the broadcaster drains.
InitChannel ==
  /\ variant \in {"A", "M"}
  /\ max_attempts = MaxBudget
  /\ LoopInit
  /\ SessionInit
  /\ ChannelInit
  /\ StageInit

NextChannel ==
  \/ \E o \in Observers : A_Connect(o)
  \/ \E o \in Observers : A_Disconnect(o)
  \/ \E o \in Observers : M_Connect(o)
  \/ \E o \in Observers : M_Disconnect(o)
  \/ A_BeginResearch
  \/ M_StartResearch
  \/ M_StartResearchPut
  \/ M_StopPut
  \/ A_HandlerStop
  \/ \E k \in Kinds : A_HandleMessage(k)
  \/ \E k \in Kinds : M_SendProgressUpdate(k)
  \/ M_PutReturns
  \/ A_ProcessMessages
  \/ A_Broadcast
  \/ A_RequeueGet
  \/ A_RequeuePut
  \/ A_Exit
  \/ M_ProcessMessages
  \/ M_Broadcast
  \/ M_Exit

SpecChannel == InitChannel /\ [][NextChannel]_vars

\* The sequences of what the model does on three calls in a row.
Three(S) == { <<a, b, c>> : a \in S, b \in S, c \in S }

\* One stage function of "E" or "M" is called on some arguments, with a model
\* that replies in some way; the loop, the sessions and the channel are at rest.
\* Only formulate_query reads the question beyond putting it in its prompt.
InitStages ==
  /\ variant \in {"E", "M"}
  /\ max_attempts = MaxBudget
  /\ LoopInit
  /\ SessionInit
  /\ ChannelInit
  /\ returned = "pending"
  /\ model_calls = 0
  /\ result = NoResult
  /\ \/ /\ called = "select"
        /\ search_results \in ResultLists
        /\ permitted \in SUBSET Hrefs(search_results)
        /\ user_query = <<>>
        /\ replies \in Three(SelectionReplies)
     \/ /\ called = "evaluate"
        /\ search_results = <<>>
        /\ permitted = {}
        /\ user_query = <<>>
        /\ replies \in Three(EvaluationReplies)
     \/ /\ called = "formulate"
        /\ search_results = <<>>
        /\ permitted = {}
        /\ user_query \in UserQueries
        /\ replies \in Three(FormulationReplies)
     \/ /\ called \in {"generate", "synthesize"}
        /\ (called = "synthesize" => variant = "E")
        /\ search_results = <<>>
        /\ permitted = {}
        /\ user_query = <<>>
        /\ replies \in Three(AnswerReplies)
     \/ /\ called = "scrape"
        /\ search_results = <<>>
        /\ permitted \in SUBSET {"u1", "u2", "u3"}
        /\ user_query = <<>>
        /\ replies = <<>>
  /\ successful_urls = {}
  /\ failed_urls = {}
  /\ IF called = "scrape"
     THEN /\ scrape_urls \in { HrefList(r) : r \in ResultLists }
          /\ fetchable \in SUBSET {"u1", "u2", "u3"}
     ELSE /\ scrape_urls = <<>>
          /\ fetchable = {}

NextStages ==
  \/ E_select_relevant_pages
  \/ M_select_relevant_pages
  \/ E_evaluate_scraped_content
  \/ M_evaluate_content
  \/ E_formulate_query
  \/ M_formulate_query
  \/ E_generate_final_answer
  \/ E_synthesize_final_answer
  \/ M_generate_answer
  \/ M_scrape_content
  \/ E_scrape_content

SpecStages == InitStages /\ [][NextStages]_vars

-----------------------------------------------------------------------------
(* Properties of the Research Loop.                                        *)

\* The budget is spent: the attempt index reached it, or the last attempt of
\* "M" went to synthesis through `attempt == self.max_attempts - 1'.
BudgetExhausted ==
  \/ attempt = max_attempts
  \/ attempt = max_attempts - 1 /\ pc \in {"generate", "done"}

\* C1: the attempt index never exceeds the budget B, and the k-th call to the
\* Query Formulator carries attempt index k-1: the indices start at 0, rise by
\* one, none is passed twice and none is >= B.
C1_AttemptIndices ==
  /\ attempt <= max_attempts
  /\ Len(form_calls) <= max_attempts
  /\ \A k \in 1..Len(form_calls) :
       form_calls[k] = k - 1 /\ form_calls[k] < max_attempts

\* A finished execution that used its whole budget of at least two attempts.
C1_Witness ==
  /\ pc = "done"
  /\ max_attempts >= 2
  /\ Len(form_calls) = max_attempts

\* C2: best content and best confidence change only in the step that computes
\* an attempt's confidence, and only when that confidence is strictly greater
\* than the stored best confidence; otherwise both stay as they are.
C2_BestOnlyOnStrictImprovement ==
  [][ (best_content' # best_content \/ best_confidence' # best_confidence)
        => /\ pc = "scrape" /\ pc' = "evaluate"
           /\ current_confidence' > best_confidence
           /\ best_content' = scraped_content'
           /\ best_confidence' = current_confidence' ]_vars

\* A later attempt whose confidence equals the stored one left other content
\* in place.
C2_Witness ==
  /\ pc = "evaluate"
  /\ attempt >= 1
  /\ current_confidence = best_confidence
  /\ scraped_content # best_content

\* C3: the stored best confidence is at least the confidence computed for every
\* attempt completed so far.
C3_BestIsMaximum ==
  /\ best_confidence >= max_conf_seen
  /\ best_confidence >= current_confidence

\* A later attempt scored strictly lower than the stored best.
C3_Witness ==
  /\ pc = "evaluate"
  /\ attempt >= 1
  /\ current_confidence < best_confidence

\* C4: every exit of the Research Loop ends with a final answer string; no exit
\* path ends with an uncaught failure and no answer.
C4_EveryExitProducesAnswer ==
  /\ pc # "crashed"
  /\ pc = "done" => answer # NoAnswer

\* C5 as claimed: once the evaluator has returned `answer', no further Query
\* Formulator, search, selection or scrape call is made in that execution.
C5_NoCallAfterAnswer ==
  answer_verdict => ~late_call

\* C5, amended: after an `answer' verdict the loop goes to synthesis and, unless
\* that synthesis call raises, returns in that attempt without any further
\* Query Formulator, search, selection or scrape call.
C5_NoCallAfterAnswerUnlessSynthesisRaises ==
  (answer_verdict /\ ~synth_raised) =>
     /\ ~late_call
     /\ pc \in {"generate", "done"}
     /\ pc = "done" => answer # NoAnswer

\* The evaluator answered before the last attempt and the loop returned there.
C5_Witness ==
  /\ answer_verdict /\ ~synth_raised
  /\ pc = "done"
  /\ attempt < max_attempts - 1
  /\ answer = ModelText

C7_BudgetExhaustedCompletes ==
  (variant = "M" /\ ~answer_verdict /\ BudgetExhausted /\ pc \notin Stages) =>
     /\ pc \in {"idle", "done"}
     /\ (pc = "done" /\ best_content # EmptyContent) =>
          llm_synth /\ synth_content = best_content

\* C8: once a stop was requested while a call was in flight, the loop starts no
\* further call after that call returns.
C8_NoStageAfterStop ==
  ~stage_after_stop

\* The place of a status on the path pending -> starting -> running ->
\* {completed, stopped, error}.
Terminal == {"completed", "stopped", "error"}
Rank(status) ==
  CASE status = "pending"  -> 0
    [] status = "starting" -> 1
    [] status = "running"  -> 2
    [] OTHER               -> 3

\* C9: once stop_research has been accepted for a session of the registry, the
\* status of that session is `stopped' from then on, in the registry entry and
\* in the persisted row, whatever the worker and the later operations do.
C9_StoppedStaysStopped ==
  \A id \in SessionIds :
    stop_accepted[id] =>
      /\ research_sessions[id] # NoEntry =>
            research_sessions[id].status = "stopped"
      /\ db[id] # NoRow => db[id] = "stopped"

\* C10: in every step the status of a session, in the registry entry and in
\* the persisted row, stays where it is or moves forward along pending ->
\* starting -> running -> {completed, stopped, error}, and a status that is
\* completed, stopped or error is never replaced by another value.  A step in
\* which create_session puts a new session under the id is not held against
\* the property.
C10_StatusMonotone ==
  [][ \A id \in SessionIds :
        LET entry == research_sessions[id]
            entry2 == research_sessions'[id]
            created == entry2 # entry /\ entry2.status = "pending"
        IN ~created =>
             /\ (entry # NoEntry /\ entry2 # NoEntry) =>
                   \/ entry2.status = entry.status
                   \/ /\ entry.status \notin Terminal
                      /\ Rank(entry2.status) > Rank(entry.status)
             /\ (db[id] # NoRow /\ db'[id] # NoRow) =>
                   \/ db'[id] = db[id]
                   \/ /\ db[id] \notin Terminal
                      /\ Rank(db'[id]) > Rank(db[id]) ]_vars

\* C11: when the loop of a running session has returned after an `answer'
\* verdict, the status of the session in the registry eventually becomes
\* `completed'.
C11_AnsweredLeadsToCompleted ==
  \A id \in SessionIds :
    (/\ research_sessions[id].status = "running"
     /\ active_tasks[id] # NoTask
     /\ futures[active_tasks[id]] = "answered")
      ~> (research_sessions[id].status = "completed")

\* C12: every exception that a stage of an attempt raises is caught by the
\* loop, reported by an event of type error (as long as no stop was
\* requested), and consumes exactly one attempt; the loop then goes on with
\* the next attempt while budget remains.
C12_ExceptionReportedAndConsumed ==
  [][ exceptions' = exceptions + 1 =>
        /\ ~stop_requested => exception_events' > exception_events
        /\ attempt' = attempt + 1
        /\ (LoopGuard(attempt', max_attempts) /\ ~stop_requested) =>
              pc' = "formulate" ]_vars

-----------------------------------------------------------------------------
(* Properties of the event channel.                                        *)

\* C14: no producer ever waits on a full queue: neither the worker that emits
\* the events of the loop nor a caller of the session layer that puts a status
\* update is ever blocked inside a put.
C14_NoProducerWaits ==
  /\ producer # "blocked"
  /\ event_loop # "control_put"

\* C15: an event accepted into the queue of the session is never lost before
\* an observer got it: as long as no observer has received it, it is on a
\* queue that the session or its broadcaster still holds, or in the hands of
\* the broadcaster (which puts it back), so that an observer that attaches
\* later can still receive it.
C15_AcceptedNotLost ==
  \A n \in accepted :
    \/ \E o \in Observers : \E i \in 1..Len(delivered[o]) : delivered[o][i] = n
    \/ \E q \in {message_queues, bc_queue} \ {NoQueue} :
          \E i \in 1..Len(queues[q]) : queues[q][i] = n
    \/ in_hand = n

\* C16: when no more events were emitted than the queue can hold, the events
\* an observer has received arrived in their original emission order, also
\* when some of them were drained and put back while no observer was
\* attached.
C16_RequeuedInEmissionOrder ==
  Len(emitted) <= QueueCap =>
    \A o \in Observers :
      \A i, j \in 1..Len(delivered[o]) :
        i < j => delivered[o][i] < delivered[o][j]

C18_ConsecutiveDuplicateSuppressed ==
  \A n \in 2..Len(emitted) :
    (/\ emitted[n].by = "loop"
     /\ emitted[n - 1] = emitted[n]) => n \notin accepted

\* C19: a Research Loop is only ever submitted for a session that had at least
\* one observer attached at the time of begin; begin without an observer is
\* refused and submits nothing.
C19_BeginNeedsObserver == loop_submitted => observed_at_begin

\* C20: a session becomes running, and a Research Loop is submitted for it,
\* only by a step that finds the session in status starting and leaves it in
\* status running: begin on a session in any other status neither sets it to
\* running nor submits a loop.
C20_RunningOnlyFromStarting ==
  [][ \A id \in SessionIds :
        (\/ /\ research_sessions'[id].status = "running"
            /\ research_sessions[id].status # "running"
         \/ /\ active_tasks'[id] # NoTask
            /\ active_tasks'[id] # active_tasks[id])
          => /\ research_sessions[id].status = "starting"
             /\ research_sessions'[id].status = "running" ]_vars

\* C21: once initialize_session has raised for a session, the session is
\* absent from the registry and has no active task (until a session of that
\* id is created again).
C21_FailedSetupLeavesNothing ==
  \A id \in SessionIds :
    setup_failed[id] =>
      /\ research_sessions[id] = NoEntry
      /\ active_tasks[id] = NoTask

-----------------------------------------------------------------------------
(* Properties of the worker pools.                                         *)

\* C22: at every moment the number of Research Loops that execute is at most
\* the size of the pool (5 in SessionManager, 1 in main.py): a loop submitted
\* while the pool is saturated waits until a thread of the pool is idle.
C22_PoolBoundsRunningLoops == Cardinality(Running) <= PoolSize

\* The pool of SessionManager is saturated: all its threads run a loop and one
\* more loop is submitted and waits.
C22_Witness ==
  /\ variant = "M"
  /\ Cardinality(Running) = max_workers
  /\ \E f \in DOMAIN futures : futures[f] = "queued"

-----------------------------------------------------------------------------
(* Further properties of the session layer.                                *)

\* C23: creating a session never replaces the registry entry of an existing
\* session: no step turns the entry of a session that is in the registry into
\* the fresh entry of a new session.
C23_CreateNeverReplaces ==
  [][ \A id \in SessionIds :
        (/\ research_sessions[id] # NoEntry
         /\ research_sessions'[id] # research_sessions[id])
          => research_sessions'[id] #
               [status |-> "pending", search_engine |-> "None"] ]_vars

-----------------------------------------------------------------------------
(* Properties of the stage functions.                                      *)

\* C24: whatever the model replies, the URLs select_relevant_pages returns
\* are at most two, each is the href of one of the given search results, and
\* can_fetch answered True for each.
C24_SelectedAtMostTwoPermitted ==
  (called = "select" /\ returned = "returned") =>
    /\ Len(result.urls) <= 2
    /\ \A i \in 1..Len(result.urls) :
         /\ result.urls[i] \in Hrefs(search_results)
         /\ result.urls[i] \in permitted

\* The model named results 1 and 2 of three, the first of which may not be
\* fetched: the second alone was returned.
C24_Witness ==
  /\ called = "select" /\ returned = "returned"
  /\ Len(search_results) = 3
  /\ replies[1].selected /\ replies[1].reasoning
  /\ replies[1].nums = <<1, 2>>
  /\ search_results[1].href \notin permitted
  /\ search_results[2].href \in permitted
  /\ result.urls = <<search_results[2].href>>

\* C25: a final answer is never the empty text: the text a synthesis
\* function returns is the first text of the model that is not empty, or the
\* apology of the function.
C25_FinalAnswerNeverEmpty ==
  (called \in {"generate", "synthesize"} /\ returned = "returned") =>
    result.text # <<>>

-----------------------------------------------------------------------------
(* Properties of the confidence scores.                                    *)

\* C26: the reliability recorded for a URL, the confidence computed for an
\* attempt and the best confidence kept are integers from 0 to 100 in every
\* state, and the confidence in the result and completed events is the best
\* confidence kept.
C26_ConfidenceInRange ==
  /\ \A u \in DOMAIN source_metrics : source_metrics[u] \in 0..100
  /\ current_confidence \in 0..100
  /\ max_conf_seen \in 0..100
  /\ best_confidence \in 0..100
  /\ \A c \in reported_confidences : c = best_confidence

\* A loop of "M" ended with its events put, after a page of full reliability
\* and one of less was recorded.
C26_Witness ==
  /\ variant = "M" /\ pc = "done"
  /\ results_emitted > 0 /\ completed_emitted
  /\ reported_confidences = {100}
  /\ \E u \in DOMAIN source_metrics : source_metrics[u] < 100

-----------------------------------------------------------------------------
(* Properties of the stage functions, continued.                           *)

\* C27: the evaluator always returns, with the decision <<"answer">> or
\* <<"refine">>, after at most three calls of the model: the decision of the
\* first reply that has one of the two, and <<"refine">> when no reply has (no
\* decision line, another word, or the call raised).
C27_DecisionAnswerOrRefine ==
  (called = "evaluate" /\ returned # "pending") =>
    LET valid == { i \in 1..max_retries :
                     /\ ~replies[i].raises
                     /\ parse_evaluation_response(replies[i]).decision
                          \in {<<"answer">>, <<"refine">>} }
    IN  /\ returned = "returned"
        /\ model_calls <= max_retries
        /\ result.decision \in {<<"answer">>, <<"refine">>}
        /\ IF valid = {}
           THEN result.decision = <<"refine">>
           ELSE \E i \in valid :
                  /\ \A j \in valid : i <= j
                  /\ model_calls = i
                  /\ result.decision =
                       parse_evaluation_response(replies[i]).decision

\* C28: the selector calls the model at most three times.  What it returns
\* comes from a reply that names exactly two numbers, each from 1 to the
\* number of results, with at least one of the two results permitted; or else
\* it is the first two permitted results in rank order (fewer only when fewer
\* are permitted).
C28_SelectionAcceptedOrFallback ==
  (called = "select" /\ returned # "pending") =>
    LET N == Len(search_results)
        Named(i) == { search_results[n].href :
                        n \in { replies[i].nums[k] : k \in 1..Len(replies[i].nums) }
                              \cap (1..N) }
        Acceptable(i) ==
          /\ ~replies[i].raises
          /\ replies[i].selected
          /\ Len(replies[i].nums) = 2
          /\ \A k \in 1..2 : replies[i].nums[k] \in 1..N
          /\ Named(i) \cap permitted # {}
        FirstTwoPermitted ==
          Take(SelectSeq(HrefList(search_results), LAMBDA u : u \in permitted), 2)
    IN  /\ model_calls <= max_retries
        /\ returned = "returned" =>
             \/ \E i \in 1..model_calls :
                  /\ Acceptable(i)
                  /\ { result.urls[k] : k \in 1..Len(result.urls) }
                       = Named(i) \cap permitted
             \/ result.urls = FirstTwoPermitted

\* C29: the formulator calls the model at most three times and returns the
\* query of the first reply whose cleaned query is not empty; when no reply
\* it got has one, it returns the first five words of the question with the
\* time range <<"none">>.
C29_FirstQueryOrFiveWords ==
  (called = "formulate" /\ returned # "pending") =>
    LET good == { i \in 1..model_calls :
                    /\ ~replies[i].raises
                    /\ parse_query_response(replies[i]).query # <<>> }
    IN  /\ model_calls <= max_retries
        /\ returned = "returned" =>
             IF good = {}
             THEN /\ result.query = Join(Take(user_query, 5))
                  /\ result.time_range = <<"none">>
             ELSE \E i \in good :
                    /\ \A j \in good : i <= j
                    /\ result.query = parse_query_response(replies[i]).query

\* C30: the time range the formulator returns is one of d, w, m, y and none,
\* whatever the model replies; it is none when the reply it took has no
\* time-range line or has another value there.
C30_TimeRangeInClosedSet ==
  (called = "formulate" /\ returned = "returned") =>
    LET closed == {<<"d">>, <<"w">>, <<"m">>, <<"y">>, <<"none">>}
        reply == replies[model_calls]
    IN  /\ result.time_range \in closed
        /\ (\/ ~reply.time_line
            \/ str_lower(str_strip(reply.time)) \notin closed)
             => result.time_range = <<"none">>

\* The reply taken has a query and the time range `week': none was returned.
C30_Witness ==
  /\ called = "formulate" /\ returned = "returned"
  /\ replies[model_calls].query_line
  /\ result.query = <<"lock", " ", "free">>
  /\ replies[model_calls].time_line
  /\ replies[model_calls].time = <<" ", "week">>
  /\ result.time_range = <<"none">>

\* C31: after scrape_content returned, every URL of its list is among the
\* successful URLs of the research details and a key of the returned map, or
\* among the failed URLs and no key of it; a URL that may not be fetched or
\* whose fetch gave nothing is among the failed ones; no URL is in both sets.
C31_EveryUrlSucceededOrFailed ==
  (called = "scrape" /\ returned = "returned") =>
    LET keys == { result.urls[k] : k \in 1..Len(result.urls) }
    IN  /\ \A i \in 1..Len(scrape_urls) :
             LET u == scrape_urls[i]
             IN  /\ \/ u \in successful_urls /\ u \in keys
                    \/ u \in failed_urls /\ u \notin keys
                 /\ (u \notin permitted \/ u \notin fetchable)
                      => u \in failed_urls
        /\ successful_urls \cap failed_urls = {}

-----------------------------------------------------------------------------
(* Properties of the Research Loop, continued.                             *)

C33_NothingCompletedAfterStop ==
  [][ stop_requested =>
        /\ results_emitted' = results_emitted
        /\ completed_emitted' = completed_emitted
        /\ (llm_synth' => llm_synth) ]_vars

\* C34: while the session is in the registry with a loop submitted, the
\* session has one queue, which is never deleted or replaced whatever the
\* observers do; the producer writes to that queue and the broadcaster drains
\* it, and no event of the loop is discarded because the queue is missing.
C34_OneQueueWhileLoopRuns ==
  /\ []((session_registered /\ loop_submitted) =>
          /\ message_queues # NoQueue
          /\ put_target \in {NoQueue, message_queues}
          /\ bc_queue \in {NoQueue, message_queues})
  /\ [][(session_registered /\ loop_submitted /\ loop_submitted') =>
          message_queues' = message_queues]_vars
  /\ [][(Len(emitted') > Len(emitted) /\ emitted'[Len(emitted')].by = "loop")
          => message_queues # NoQueue]_vars

\* C35: for a session started through SessionManager.start_research, the
\* status running is on the session's queue before any event that the
\* session's loop worker has put there, in every interleaving of the two.
C35_RunningBeforeWorkerEvents ==
  variant = "M" =>
    \A i \in accepted :
      emitted[i].by = "loop" =>
        \E j \in accepted :
          /\ j < i
          /\ emitted[j] = [type |-> "status", message |-> "", by |-> "control"]

C37_ExactlyOneResult ==
  (pc = "done" /\ ~stop_requested) => results_emitted = 1

\* C38: at any time at most one broadcaster task is inside the drain loop for
\* the session's queue: process_messages called while a broadcaster is running
\* starts no second loop.
C38_OneBroadcaster ==
  drain_loops <= 1

\* C39: a call of cleanup_session or delete_session for a session that is in
\* the registry, in whatever status, leaves the id out of the registry and
\* without an entry in the active tasks.
C39_CleanupRemovesSession ==
  [][ \A id \in SessionIds :
        (/\ InMemory(Stores, id)
         /\ cleanup_session(id) \/ delete_session(id))
          => /\ research_sessions'[id] = NoEntry
             /\ active_tasks'[id] = NoTask ]_vars

\* C40: an event that handle_message would suppress as a duplicate is the
\* event that was last placed on the session's queue, with the same type and
\* the same text; an event dropped because the queue was full does not make
\* the next identical event a duplicate.
C40_DuplicateOnlyOfPlaced ==
  variant = "A" =>
    \A k \in Kinds :
      LET message == [type |-> k.type, message |-> Strip(k.message)]
          placed == { i \in accepted : emitted[i].by = "loop" }
      IN  (~stop_event /\ message.message # "" /\ message = last_message) =>
            /\ placed # {}
            /\ LET newest == CHOOSE i \in placed : \A j \in placed : j <= i
               IN  /\ emitted[newest].type = message.type
                   /\ Strip(emitted[newest].message) = message.message

=============================================================================
